---- MODULE Spec2Model ----
(***************************************************************************)
(* Schedule write-back engine (excel_handler.py, app.py).                  *)
(*                                                                         *)
(* SpecRows : one file bucket of ExcelHandler.batch_process on the rows of *)
(*            a workbook: cancel (delete), modify (cell write) and new     *)
(*            (insert + copy of the reference row) with the row-index      *)
(*            compensation of lines 1357-1402.                             *)
(* Spec     : the commit protocol around it: batch_process per file bucket *)
(*            (undo backup, stage copy, open, mutate, save, copy back),    *)
(*            its callers batch_execute / reentry / the background         *)
(*            worker's scheduled re-entry, the pending-retry queue with    *)
(*            auto_retry_pending, retry_failed and clear_pending.  Request *)
(*            threads and the worker thread interleave at every file or    *)
(*            workbook operation.                                          *)
(***************************************************************************)
EXTENDS Integers, Sequences, FiniteSets, Bags, TLC

VARIABLES
    \* ---- workbook rows of one staged file (SpecRows) ----
    sheets,              \* wb.Sheets(sn): sheet name -> sequence of rows
    archive,             \* rows copied to the cancel sheet by _do_cancel_com
    isSummary,           \* '总' in wb.Name (master schedule: delete only)
    ops,                 \* file_ops[fkey]: [cancel, modify, new] action lists
    nc, nm, nn,          \* how many cancels / modifies / news have been applied
    deleted_rows,        \* batch_process local: sequence of <<sheet, row>>
    inserted_positions,  \* batch_process local: sheet -> sequence of positions
    last_insert_pos,     \* batch_process local: sheet -> last position (0: none)
    \* ---- files and persisted state (Spec) ----
    dest,                \* destination (Z: drive) files: file -> content
    localf,              \* staged copies in BATCH_DIR, by base name
    undo,                \* backups in UNDO_DIR: <<job, file>> -> content
    ledger,              \* undo_history.json: sequence of <<job, file>>
    history,             \* history.json: bag of <<po, action, file>>
    queue,               \* pending_retries.json: sequence of items
    \* ---- one thread per commit request / scheduled job ----
    pc, jkind, jfiles,   \* position, caller, file_ops keys in insertion order
    bi, ka, wb,          \* bucket index, actions applied, open workbook
    results, failed,     \* batch_process locals
    \* ---- a run of auto_retry_pending ----
    spc, sitems, si, sok, sstill,
    \* ---- a retry_failed request; number of manual requests so far ----
    rpc, rres, nreq,
    \* ---- undo ledger and backups (SpecUndo) ----
    uz,                  \* destination files by path: content, or Absent
    ubak,                \* files in UNDO_DIR: backup path -> content
    uhist,               \* undo_history.json: sequence of entries
    utime,               \* the clock, in seconds (batch_id resolution)
    uops,                \* commits and deletions so far
    uenv,                \* files removed from outside so far
    nundo,               \* undo_selected calls so far
    ures,                \* what the last undo_selected call did
    \* ---- code normalisation (SpecNorm) ----
    tin,                 \* the argument, a sequence of characters
    tdone,               \* the functions have been applied
    tcode, tspec,        \* _item_code(tin), _sku_spec(tin)
    \* ---- upload analysis of one order (SpecDiff) ----
    dpo, dlines,         \* pdf_data: po_number, lines
    drecs,               \* existing records found for the PO
    dfound,              \* the codes auto_find resolves to a reference
    dpc,                 \* "parsed", "analysed", "committed"
    dactions,            \* the order's action list
    dissues,             \* issue records: indexes of the lines they name
    dgrouped,            \* batch_process: the actions put into file buckets
    \* ---- one call of auto_find (SpecFind) ----
    qsku,                \* the argument
    qfiles,              \* _list_xlsx(): files with their name and sheets
    qstage,              \* "start", "names", "all", "done"
    qidx,                \* position of the loop over the files
    qbest,               \* the local 'best'; the return value when done
    \* ---- scheduled re-entry jobs and the worker's cycle (SpecSched) ----
    scheduled,           \* scheduled_retries.json: sequence of items
    now_hm,              \* the clock, in minutes of the day
    nsched,              \* schedule-retry requests so far
    wpc,                 \* the worker: "sleep", "loop"
    sched_items,         \* the worker's local 'items'
    sched_remaining,     \* the local 'remaining': positions in 'items'
    sched_i,             \* position of the loop over 'items'
    nruns,               \* job id -> calls of batch_process for the job
    ncycles,             \* cycles of the worker so far
    \* ---- headers of inserted rows in one batch (SpecHeader) ----
    gorders,             \* the argument 'orders' of batch_process
    file_ops,            \* the buckets, in insertion order
    gpc,                 \* "start", "files", "done"
    gbi, gni,            \* position in file_ops, position in ops['new']
    grows,               \* the rows _do_new_com has written
    \* ---- PO search, one PO and many POs (SpecSearch) ----
    corpus,              \* the schedule files under the directory
    po_list,             \* the queried PO numbers
    all_results,         \* what batch_search_pos did: the dict it returned,
                         \* as pairs <<PO, rows>>, or that it raised
    single_results,      \* <<PO, rows search_po returned for it>>
    searched             \* which of the two searches have run

rvars == <<sheets, archive, isSummary, ops, nc, nm, nn,
           deleted_rows, inserted_positions, last_insert_pos>>

fvars == <<dest, localf, undo, ledger, history, queue>>
jvars == <<pc, jkind, jfiles, bi, ka, wb, results, failed>>
svars == <<spc, sitems, si, sok, sstill>>
mvars == <<rpc, rres, nreq>>
pvars == <<fvars, jvars, svars, mvars>>

uvars == <<uz, ubak, uhist, utime, uops, uenv, nundo, ures>>
tvars == <<tin, tdone, tcode, tspec>>
dvars == <<dpo, dlines, drecs, dfound, dpc, dactions, dissues, dgrouped>>
qvars == <<qsku, qfiles, qstage, qidx, qbest>>
ovars == <<uvars, tvars, dvars, qvars>>
cvars == <<scheduled, now_hm, nsched, wpc, sched_items, sched_remaining,
           sched_i, nruns, ncycles>>
hvars == <<gorders, file_ops, gpc, gbi, gni, grows>>
kvars == <<corpus, po_list, all_results, single_results, searched>>
xvars == <<cvars, hvars, kvars>>

vars == <<rvars, pvars, ovars, xvars>>

---------------------------------------------------------------------------
(* Bounds of the model *)
DataRows == 3        \* data rows per sheet at the start of the batch
MaxActs == 3         \* actions in one file bucket
MaxShip == 2         \* distinct ship dates 1..MaxShip (0: cell holds no date)

(* Program constants *)
FirstDataRow == 4    \* _insert_pos_com: start_row = max(4, start_after + 1)
ScanLimit == 5000    \* _insert_pos_com: range(start_row, min(used_rows + 1, 5000))

SheetNames == {"A", "B"}
NoId == <<"none", 0>>
BlankRow == [id |-> <<"blank", 0>>, ship |-> 0, mods |-> {}, tmpl |-> NoId]

Max2(a, b) == IF a >= b THEN a ELSE b
Min2(a, b) == IF a <= b THEN a ELSE b

LastRow0 == FirstDataRow - 1 + DataRows
DataRowNums == FirstDataRow .. LastRow0

\* The ship-date column of the data rows, top to bottom, at the start.
ShipPatterns ==
    { p \in [1 .. DataRows -> 0 .. MaxShip] :
        \/ \A i \in 1 .. DataRows : p[i] = 0
        \/ \A i \in 1 .. DataRows : p[i] = Min2(i, MaxShip)
        \/ \A i \in 1 .. DataRows : p[i] = Max2(1, MaxShip + 1 - i) }

InitSheet(sn, p) ==
    [r \in 1 .. LastRow0 |->
        [id |-> <<sn, r>>,
         ship |-> IF r < FirstDataRow THEN 0 ELSE p[r - FirstDataRow + 1],
         mods |-> {}, tmpl |-> NoId]]

\* The actions a client can send for one file (orders[..]['actions']).
CancelActs == [type : {"cancel"}, sheet : SheetNames, row : DataRowNums]
ModifyActs == [type : {"modify"}, sheet : SheetNames, row : DataRowNums]
NewActs == [type : {"new"}, sheet : SheetNames, ref : DataRowNums,
            ship : 0 .. MaxShip]
AllActs == CancelActs \cup ModifyActs \cup NewActs

ActLists == UNION { [1 .. n -> AllActs] : n \in 0 .. MaxActs }

---------------------------------------------------------------------------
(* batch_process, lines 1309-1329: the bucket of one file *)
GroupOps(acts) ==
    [cancel |-> SelectSeq(acts, LAMBDA a : a.type = "cancel"),
     modify |-> SelectSeq(acts, LAMBDA a : a.type = "modify"),
     new |-> SelectSeq(acts, LAMBDA a : a.type = "new")]

(* sorted(ops['cancel'], key=row, reverse=True): stable, descending by row *)
RECURSIVE InsertDesc(_, _)
InsertDesc(x, s) ==
    IF s = <<>> THEN <<x>>
    ELSE IF Head(s).row >= x.row THEN <<Head(s)>> \o InsertDesc(x, Tail(s))
    ELSE <<x>> \o s

RECURSIVE SortDesc(_)
SortDesc(s) ==
    IF s = <<>> THEN <<>>
    ELSE InsertDesc(s[Len(s)], SortDesc(SubSeq(s, 1, Len(s) - 1)))

CancelOps == SortDesc(ops.cancel)

(* ws.Rows(row).Delete(): a row below the used range deletes nothing *)
DeleteRow(s, r) ==
    IF r > Len(s) THEN s
    ELSE SubSeq(s, 1, r - 1) \o SubSeq(s, r + 1, Len(s))

RowAt(s, r) == IF r >= 1 /\ r <= Len(s) THEN s[r] ELSE BlankRow

RECURSIVE PadTo(_, _)
PadTo(s, n) == IF Len(s) >= n THEN s ELSE PadTo(Append(s, BlankRow), n)

(* ws.Rows(pos).Insert(): a blank row at pos, the rows from pos on move down *)
InsertBlank(s, pos) ==
    LET t == PadTo(s, pos - 1)
    IN  SubSeq(t, 1, pos - 1) \o <<BlankRow>> \o SubSeq(t, pos, Len(t))

(* line 1375 / 1392: shift = sum(1 for dsn, d in deleted_rows
                                 if dsn == sn and d < orig_row) *)
ShiftAnySheet(del, sn, row) ==
    Cardinality({ i \in 1 .. Len(del) : del[i][2] < row })

Shift(del, sn, row) ==
    Cardinality({ i \in 1 .. Len(del) : del[i][1] = sn /\ del[i][2] < row })

(* lines 1393-1397: adj_ref = ref - shift_del; for p in inserted_positions:
   if p <= adj_ref: adj_ref += 1 *)
RECURSIVE BumpByInserted(_, _)
BumpByInserted(adj, ps) ==
    IF ps = <<>> THEN adj
    ELSE BumpByInserted(IF Head(ps) <= adj THEN adj + 1 ELSE adj, Tail(ps))

AdjRefNoInserted(del, ins, sn, ref) == ref - Shift(del, sn, ref)

AdjRef(del, ins, sn, ref) == BumpByInserted(ref - Shift(del, sn, ref), ins)

(* _insert_pos_com, lines 1982-2013 *)
RECURSIVE ScanNoDate(_, _, _, _)
ScanNoDate(s, r, stop, last) ==
    IF r >= stop THEN last + 1
    ELSE ScanNoDate(s, r + 1, stop, IF RowAt(s, r).ship # 0 THEN r ELSE last)

RECURSIVE ScanDate(_, _, _, _, _)
ScanDate(s, r, stop, last, ship_dt) ==
    IF r >= stop THEN last + 1
    ELSE IF RowAt(s, r).ship = 0 THEN ScanDate(s, r + 1, stop, last, ship_dt)
    ELSE IF RowAt(s, r).ship >= ship_dt THEN r
    ELSE ScanDate(s, r + 1, stop, r, ship_dt)

InsertPos(s, ship_dt, start_after) ==
    LET start_row == Max2(FirstDataRow, start_after + 1)
        stop == Min2(Len(s) + 1, ScanLimit)
    IN  IF ship_dt = 0 THEN ScanNoDate(s, start_row, stop, start_row - 1)
        ELSE ScanDate(s, start_row, stop, start_row - 1, ship_dt)

(* _do_new_com, line 1629: actual_ref = ref_row + 1 if ref_row >= pos
   else ref_row *)
ActualRefNoMove(ref_row, pos) == ref_row

ActualRef(ref_row, pos) == IF ref_row >= pos THEN ref_row + 1 ELSE ref_row

(* _do_new_com: the new row at pos, copied from the row at actual_ref, with
   the order's ship date written over the copy when the order has one *)
DoNew(s, ref_row, ship_dt, start_after, k) ==
    LET pos == InsertPos(s, ship_dt, start_after)
        t == InsertBlank(s, pos)
        src == RowAt(t, ActualRef(ref_row, pos))
    IN  [pos |-> pos,
         sheet |-> [t EXCEPT ![pos] =
                      [id |-> <<"new", k>>,
                       ship |-> IF ship_dt # 0 THEN ship_dt ELSE src.ship,
                       mods |-> {}, tmpl |-> src.id]]]

(* _do_modify_com: writes the changed cells of the given row *)
DoModify(s, row, i) ==
    LET t == PadTo(s, row)
    IN  IF row < 1 THEN s
        ELSE [t EXCEPT ![row] = [@ EXCEPT !.mods = @ \cup {i}]]

---------------------------------------------------------------------------
---------------------------------------------------------------------------
(* The commit protocol *)

(* Bounds of the model *)
NJobs == 2           \* commit requests / scheduled jobs
ActsPerType == 1     \* cancels, modifies and news in every file bucket
MaxRetries == 2      \* a sweep starts only while every counter is below it
MaxRequests == 1     \* retry_failed and clear_pending requests
MaxBuckets == 2      \* file buckets over all batch_process calls

(* Program constants *)
UndoKeep == 30       \* _save_undo_entry: history = history[-30:]

Jobs == 1 .. NJobs
Files == {"f1", "f2"}
Kinds == {"execute", "reentry", "scheduled"}
FileSeqs == { <<f>> : f \in Files } \cup
            { s \in { <<f, g>> : f \in Files, g \in Files } : s[1] # s[2] }

\* A file's content: the set of actions written into it, <<job, type, i>>.
Missing == {<<0, "missing", 0>>}
TypeOrder == <<"cancel", "modify", "new">>
NActs == 3 * ActsPerType

(* batch_process, lines 1357-1402: the order in which the actions of a
   bucket are applied: cancels, then modifies, then news *)
TypeOfNewsFirst(n) ==
    <<"new", "modify", "cancel">>[((n - 1) \div ActsPerType) + 1]

TypeOf(n) == TypeOrder[((n - 1) \div ActsPerType) + 1]

Token(j, n) == <<j, TypeOf(n), ((n - 1) % ActsPerType) + 1>>
FullTokens(j) == { Token(j, n) : n \in 1 .. NActs }
TokensOf(c, j) == { t \in c : t[1] = j }

CurFile(j) == jfiles[j][bi[j]]
FailedFiles(j) == { failed[j][i].file : i \in 1 .. Len(failed[j]) }

(* lines 1361-1408: wb.Save() is reached after the three loops *)
MutationsDoneEarly(j) == ka[j] >= 1

MutationsDone(j) == ka[j] = NActs

(* _save_undo_entry, lines 1488-1490 *)
KeepLast(s) == IF Len(s) > UndoKeep
               THEN SubSeq(s, Len(s) - UndoKeep + 1, Len(s)) ELSE s

(* the for loop of line 1344: the next bucket, or return *)
Advance(j) ==
    IF bi[j] < Len(jfiles[j])
    THEN /\ bi' = [bi EXCEPT ![j] = @ + 1]
         /\ pc' = [pc EXCEPT ![j] = "backup"]
    ELSE /\ bi' = bi
         /\ pc' = [pc EXCEPT ![j] = "returned"]

ProtoInit ==
    /\ dest = [f \in Files |-> {}]
    /\ localf = [f \in Files |-> Missing]
    /\ undo = [x \in Jobs \X Files |-> Missing]
    /\ ledger = <<>>
    /\ history = EmptyBag
    /\ queue = <<>>
    /\ pc = [j \in Jobs |-> "idle"]
    /\ jkind = [j \in Jobs |-> "execute"]
    /\ jfiles = [j \in Jobs |-> <<>>]
    /\ bi = [j \in Jobs |-> 0]
    /\ ka = [j \in Jobs |-> 0]
    /\ wb = [j \in Jobs |-> Missing]
    /\ results = [j \in Jobs |-> <<>>]
    /\ failed = [j \in Jobs |-> <<>>]
    /\ spc = "idle" /\ sitems = <<>> /\ si = 0 /\ sok = <<>> /\ sstill = <<>>
    /\ rpc = "idle" /\ rres = [ok |-> <<>>, failed |-> <<>>] /\ nreq = 0

RowsIdle ==
    /\ sheets = [sn \in SheetNames |-> <<>>]
    /\ archive = <<>>
    /\ isSummary = FALSE
    /\ ops = [cancel |-> <<>>, modify |-> <<>>, new |-> <<>>]
    /\ nc = 0 /\ nm = 0 /\ nn = 0
    /\ deleted_rows = <<>>
    /\ inserted_positions = [sn \in SheetNames |-> <<>>]
    /\ last_insert_pos = [sn \in SheetNames |-> 0]

(* batch_execute / reentry / _auto_retry_worker call batch_process(orders);
   lines 1309-1329 group the actions by file *)
RECURSIVE BucketsUpTo(_)
BucketsUpTo(n) == IF n = 0 THEN 0 ELSE Len(jfiles[n]) + BucketsUpTo(n - 1)

BucketsStarted == BucketsUpTo(NJobs)

WorkerBusy ==
    \/ spc # "idle"
    \/ \E x \in Jobs : jkind[x] = "scheduled" /\ pc[x] \notin {"idle", "done"}

Start(j) ==
    /\ pc[j] = "idle"
    /\ \E kind \in Kinds, fs \in FileSeqs :
          /\ kind = "scheduled" => ~WorkerBusy
          /\ BucketsStarted + Len(fs) <= MaxBuckets
          /\ jkind' = [jkind EXCEPT ![j] = kind]
          /\ jfiles' = [jfiles EXCEPT ![j] = fs]
    /\ bi' = [bi EXCEPT ![j] = 1]
    /\ pc' = [pc EXCEPT ![j] = "backup"]
    /\ UNCHANGED <<ka, wb, results, failed, fvars, svars, mvars, rvars, ovars, xvars>>

(* line 1352: shutil.copy2(fkey, undo_fp) *)
Backup(j) ==
    /\ pc[j] = "backup"
    /\ undo' = [undo EXCEPT ![<<j, CurFile(j)>>] = dest[CurFile(j)]]
    /\ pc' = [pc EXCEPT ![j] = "stage"]
    /\ UNCHANGED <<dest, localf, ledger, history, queue, jkind, jfiles, bi, ka,
                   wb, results, failed, svars, mvars, rvars, ovars, xvars>>

(* line 1353: shutil.copy2(fkey, local) *)
Stage(j) ==
    /\ pc[j] = "stage"
    /\ localf' = [localf EXCEPT ![CurFile(j)] = dest[CurFile(j)]]
    /\ pc' = [pc EXCEPT ![j] = "open"]
    /\ UNCHANGED <<dest, undo, ledger, history, queue, jkind, jfiles, bi, ka,
                   wb, results, failed, svars, mvars, rvars, ovars, xvars>>

(* line 1354: wb = app.Workbooks.Open(local) *)
Open(j) ==
    /\ pc[j] = "open"
    /\ localf[CurFile(j)] # Missing
    /\ wb' = [wb EXCEPT ![j] = localf[CurFile(j)]]
    /\ ka' = [ka EXCEPT ![j] = 0]
    /\ pc' = [pc EXCEPT ![j] = "mutate"]
    /\ UNCHANGED <<fvars, jkind, jfiles, bi, results, failed, svars, mvars,
                   rvars, ovars, xvars>>

(* lines 1361-1406: one cancel, modify or new on the open workbook *)
Mutate(j) ==
    /\ pc[j] = "mutate"
    /\ ka[j] < NActs
    /\ wb' = [wb EXCEPT ![j] = @ \cup {Token(j, ka[j] + 1)}]
    /\ ka' = [ka EXCEPT ![j] = @ + 1]
    /\ UNCHANGED <<fvars, pc, jkind, jfiles, bi, results, failed, svars, mvars,
                   rvars, ovars, xvars>>

(* lines 1408-1409: wb.Save(); wb.Close(False) *)
Save(j) ==
    /\ pc[j] = "mutate"
    /\ MutationsDone(j)
    /\ localf' = [localf EXCEPT ![CurFile(j)] = wb[j]]
    /\ wb' = [wb EXCEPT ![j] = Missing]
    /\ pc' = [pc EXCEPT ![j] = "copyback"]
    /\ UNCHANGED <<dest, undo, ledger, history, queue, jkind, jfiles, bi, ka,
                   results, failed, svars, mvars, rvars, ovars, xvars>>

(* lines 1412-1447, _try_save_z succeeds: copy onto the destination, the
   file joins results and gets its undo ledger entry *)
CopyBackOk(j) ==
    /\ pc[j] = "copyback"
    /\ localf[CurFile(j)] # Missing
    /\ dest' = [dest EXCEPT ![CurFile(j)] = localf[CurFile(j)]]
    /\ results' = [results EXCEPT ![j] = Append(@, CurFile(j))]
    /\ ledger' = KeepLast(Append(ledger, <<j, CurFile(j)>>))
    /\ Advance(j)
    /\ UNCHANGED <<localf, undo, history, queue, jkind, jfiles, ka, wb, failed,
                   svars, mvars, rvars, ovars, xvars>>

(* lines 1412-1417, 1448-1450, _try_save_z raises: the destination is locked
   or read-only *)
CopyBackBusy(j) ==
    /\ pc[j] = "copyback"
    /\ failed' = [failed EXCEPT ![j] =
                    Append(@, [file |-> CurFile(j), why |-> "busy"])]
    /\ Advance(j)
    /\ UNCHANGED <<fvars, jkind, jfiles, ka, wb, results, svars, mvars, rvars, ovars, xvars>>

(* lines 1452-1470: an exception while backing up, staging, opening,
   mutating or saving; the workbook is closed without saving *)
Raise(j) ==
    /\ pc[j] \in {"backup", "stage", "open", "mutate"}
    /\ wb' = [wb EXCEPT ![j] = Missing]
    /\ failed' = [failed EXCEPT ![j] =
                    Append(@, [file |-> CurFile(j), why |-> "exc"])]
    /\ Advance(j)
    /\ UNCHANGED <<fvars, jkind, jfiles, ka, results, svars, mvars, rvars, ovars, xvars>>

(* A bag with n copies of every element of S *)
BagOfEach(S, n) == [e \in S |-> n]

(* batch_execute, lines 303-316: add_history for every action whose file is
   not in the failed list *)
LoggedFilesAll(j) == { jfiles[j][i] : i \in 1 .. Len(jfiles[j]) }

LoggedFiles(j) ==
    { jfiles[j][i] : i \in 1 .. Len(jfiles[j]) } \ FailedFiles(j)

ExecuteEntries(j) ==
    { <<j, TypeOf(n), f>> : n \in 1 .. NActs, f \in LoggedFiles(j) }

(* batch_execute, lines 320-330: every entry of result['failed'] becomes a
   queue item with retries 0 and the first order's PO *)
RetryItem(frec, po) ==
    [file |-> frec.file, po |-> po, retries |-> 0, last |-> FALSE,
     why |-> frec.why]

FailedItems(j, po) == [i \in 1 .. Len(failed[j]) |-> RetryItem(failed[j][i], po)]

PostExecute(j) ==
    /\ pc[j] = "returned"
    /\ jkind[j] = "execute"
    /\ history' = history (+) BagOfEach(ExecuteEntries(j), ActsPerType)
    /\ queue' = IF failed[j] # <<>> THEN queue \o FailedItems(j, j) ELSE queue
    /\ pc' = [pc EXCEPT ![j] = "done"]
    /\ UNCHANGED <<dest, localf, undo, ledger, jkind, jfiles, bi, ka, wb,
                   results, failed, svars, mvars, rvars, ovars, xvars>>

(* reentry, lines 1105-1117: a 'reentry' history entry for every action; the
   failed list is returned to the client and nothing is queued *)
PostReentry(j) ==
    /\ pc[j] = "returned"
    /\ jkind[j] = "reentry"
    /\ history' = history (+)
          BagOfEach({ <<j, "reentry", jfiles[j][i]>> : i \in 1 .. Len(jfiles[j]) },
                    NActs)
    /\ pc' = [pc EXCEPT ![j] = "done"]
    /\ UNCHANGED <<dest, localf, undo, ledger, queue, jkind, jfiles, bi, ka,
                   wb, results, failed, svars, mvars, rvars, ovars, xvars>>

(* _auto_retry_worker, lines 1189-1195: the result is counted into the
   job's status text; nothing is queued and no history is written *)
PostScheduled(j) ==
    /\ pc[j] = "returned"
    /\ jkind[j] = "scheduled"
    /\ pc' = [pc EXCEPT ![j] = "done"]
    /\ UNCHANGED <<fvars, jkind, jfiles, bi, ka, wb, results, failed, svars,
                   mvars, rvars, ovars, xvars>>

(* auto_retry_pending, lines 2319-2321: read the queue; nothing to do when
   it is empty *)
SweepStart ==
    /\ ~WorkerBusy
    /\ queue # <<>>
    /\ \A i \in 1 .. Len(queue) : queue[i].retries < MaxRetries
    /\ sitems' = queue
    /\ si' = 1
    /\ sok' = <<>>
    /\ sstill' = <<>>
    /\ spc' = "loop"
    /\ UNCHANGED <<fvars, jvars, mvars, rvars, ovars, xvars>>

(* lines 2326-2332: the copy succeeds *)
SweepItemOk ==
    /\ spc = "loop"
    /\ si <= Len(sitems)
    /\ localf[sitems[si].file] # Missing
    /\ dest' = [dest EXCEPT ![sitems[si].file] = localf[sitems[si].file]]
    /\ sok' = Append(sok, sitems[si])
    /\ history' = history (+)
          SetToBag({<<sitems[si].po, "auto_retry", sitems[si].file>>})
    /\ si' = si + 1
    /\ UNCHANGED <<localf, undo, ledger, queue, spc, sitems, sstill, jvars,
                   mvars, rvars, ovars, xvars>>

(* lines 2333-2336: the copy raises *)
StillFailedDropsOld(it) ==
    IF it.retries >= 1 THEN <<>>
    ELSE <<[it EXCEPT !.retries = @ + 1, !.last = TRUE]>>

StillFailed(it) == <<[it EXCEPT !.retries = @ + 1, !.last = TRUE]>>

SweepItemFail ==
    /\ spc = "loop"
    /\ si <= Len(sitems)
    /\ sstill' = sstill \o StillFailed(sitems[si])
    /\ si' = si + 1
    /\ UNCHANGED <<fvars, spc, sitems, sok, jvars, mvars, rvars, ovars, xvars>>

(* line 2338: save_pending_retries(still_failed) *)
SweepSave ==
    /\ spc = "loop"
    /\ si > Len(sitems)
    /\ queue' = sstill
    /\ spc' = "idle"
    /\ sitems' = <<>> /\ si' = 0 /\ sok' = <<>> /\ sstill' = <<>>
    /\ UNCHANGED <<dest, localf, undo, ledger, history, jvars, mvars, rvars, ovars, xvars>>

(* retry_failed, lines 337-339: the client posts items; retry_save copies
   each staged file onto its destination *)
RetryChoices ==
    { queue[i] : i \in 1 .. Len(queue) } \cup
    UNION { { FailedItems(j, IF jkind[j] = "execute" THEN j ELSE 0)[i] :
                i \in 1 .. Len(failed[j]) } :
            j \in { x \in Jobs : pc[x] = "done" /\ jkind[x] # "scheduled" } }

RetryCopyOk ==
    /\ rpc = "idle"
    /\ nreq < MaxRequests
    /\ \E it \in RetryChoices :
          /\ localf[it.file] # Missing
          /\ dest' = [dest EXCEPT ![it.file] = localf[it.file]]
          /\ rres' = [ok |-> <<it>>, failed |-> <<>>]
    /\ rpc' = "update"
    /\ nreq' = nreq + 1
    /\ UNCHANGED <<localf, undo, ledger, history, queue, jvars, svars, rvars, ovars, xvars>>

RetryCopyFail ==
    /\ rpc = "idle"
    /\ nreq < MaxRequests
    /\ \E it \in RetryChoices : rres' = [ok |-> <<>>, failed |-> <<it>>]
    /\ rpc' = "update"
    /\ nreq' = nreq + 1
    /\ UNCHANGED <<fvars, jvars, svars, rvars, ovars, xvars>>

(* retry_failed, lines 343-351: a failed item not yet in the queue (by its
   staged path) is appended with its counter increased; nothing else is
   written *)
RECURSIVE AppendMissing(_, _)
AppendMissing(pending, fs) ==
    IF fs = <<>> THEN pending
    ELSE AppendMissing(
            IF \E i \in 1 .. Len(pending) : pending[i].file = Head(fs).file
            THEN pending
            ELSE Append(pending, [Head(fs) EXCEPT !.retries = @ + 1]),
            Tail(fs))

RetryUpdate ==
    /\ rpc = "update"
    /\ queue' = IF rres.failed # <<>> THEN AppendMissing(queue, rres.failed)
                ELSE queue
    /\ rpc' = "idle"
    /\ rres' = [ok |-> <<>>, failed |-> <<>>]
    /\ UNCHANGED <<dest, localf, undo, ledger, history, nreq, jvars, svars,
                   rvars, ovars, xvars>>

(* clear_pending, lines 1076-1080 *)
ClearPending ==
    /\ nreq < MaxRequests
    /\ queue' = <<>>
    /\ nreq' = nreq + 1
    /\ UNCHANGED <<dest, localf, undo, ledger, history, rpc, rres, jvars,
                   svars, rvars, ovars, xvars>>

---------------------------------------------------------------------------
(* Code normalisation: _item_code and _sku_spec (SpecNorm).  A string is a
   sequence of one-character strings. *)

(* Bounds of the model *)
MaxStr == 5          \* length of the enumerated arguments

Digits == {"0", "1", "2", "3", "4", "5", "6", "7", "8", "9"}
LowerLetters == <<"a", "b", "c", "d", "e", "f", "g", "h", "i", "j", "k", "l",
                  "m", "n", "o", "p", "q", "r", "s", "t", "u", "v", "w", "x",
                  "y", "z">>
UpperLetters == <<"A", "B", "C", "D", "E", "F", "G", "H", "I", "J", "K", "L",
                  "M", "N", "O", "P", "Q", "R", "S", "T", "U", "V", "W", "X",
                  "Y", "Z">>
Letters == { LowerLetters[i] : i \in 1 .. 26 } \cup
           { UpperLetters[i] : i \in 1 .. 26 }
Whitespace == {" "}

(* str.upper() and str.lower(), one character *)
SameChar(c) == c

UpperChar(c) ==
    IF \E i \in 1 .. 26 : LowerLetters[i] = c
    THEN UpperLetters[CHOOSE i \in 1 .. 26 : LowerLetters[i] = c]
    ELSE c

LowerChar(c) ==
    IF \E i \in 1 .. 26 : UpperLetters[i] = c
    THEN LowerLetters[CHOOSE i \in 1 .. 26 : UpperLetters[i] = c]
    ELSE c

UpperStr(s) == [i \in 1 .. Len(s) |-> UpperChar(s[i])]
LowerStr(s) == [i \in 1 .. Len(s) |-> LowerChar(s[i])]

(* re.sub(r'[\s\n]+', '', str(s).strip()) *)
RemoveSpace(s) == SelectSeq(s, LAMBDA c : c \notin Whitespace)

(* s.split('-')[0] *)
RECURSIVE BeforeDash(_)
BeforeDash(s) ==
    IF s = <<>> \/ Head(s) = "-" THEN <<>>
    ELSE <<Head(s)>> \o BeforeDash(Tail(s))

(* how many characters of s, from position i on, lie in the class cls *)
RECURSIVE Run(_, _, _)
Run(s, i, cls) ==
    IF i <= Len(s) /\ s[i] \in cls THEN 1 + Run(s, i + 1, cls) ELSE 0

(* re.match of digits, then letters, then digits: length of the match,
   0 for none *)
CodeLen(s) ==
    LET d1 == Run(s, 1, Digits)
        l == Run(s, d1 + 1, Letters)
        d2 == Run(s, d1 + l + 1, Digits)
    IN  IF d1 = 0 THEN 0 ELSE d1 + l + d2

(* the optional group: '-S' and digits, after a match of length n,
   IGNORECASE *)
SuffixLen(s, n) ==
    IF /\ n + 2 <= Len(s)
       /\ s[n + 1] = "-"
       /\ s[n + 2] \in {"S", "s"}
       /\ Run(s, n + 3, Digits) > 0
    THEN 2 + Run(s, n + 3, Digits)
    ELSE 0

(* _item_code, lines 115-123 *)
ItemCode(s) ==
    LET base == BeforeDash(RemoveSpace(s))
    IN  UpperStr(SubSeq(base, 1, CodeLen(base)))

(* _sku_spec, lines 126-134 *)
SkuSpec(s) ==
    LET u == UpperStr(RemoveSpace(s))
        n == CodeLen(u)
    IN  IF n > 0 THEN UpperStr(SubSeq(u, 1, n + SuffixLen(u, n)))
        ELSE ItemCode(u)

NormAlphabet == {"1", "h", "H", "s", "S", "-", " "}
RECURSIVE StringsUpTo(_)
StringsUpTo(n) ==
    IF n = 0 THEN {<<>>}
    ELSE LET shorter == StringsUpTo(n - 1)
         IN  shorter \cup
             { Append(x, c) : x \in { y \in shorter : Len(y) = n - 1 },
                              c \in NormAlphabet }

Sample1 == <<"1", "2", "5", "1", "6", "0", "H", "-", "S", "0", "0", "1">>
Sample2 == <<"1", "5", "7", "6", "0", "U", "Q", "1">>
Sample3 == <<"9", "2", "1", "0", "5", "-", "s", "0", "0", "4">>
NormInputs == StringsUpTo(MaxStr) \cup {Sample1, Sample2, Sample3}

NormIdle ==
    /\ tin = <<>>
    /\ tdone = FALSE
    /\ tcode = <<>>
    /\ tspec = <<>>


---------------------------------------------------------------------------
(* The diff engine: smart_diff, and its callers batch_upload and
   batch_process (SpecDiff).  Cells and fields are strings, the empty
   string standing for an empty cell or a missing field.  The enumerated
   orders carry quantities only (no price, ship date or customer PO), so
   the quantity comparison is the one source of changes. *)

(* Bounds of the model *)
MaxLines == 2        \* lines of the order
MaxRecs == 1         \* existing records

StrA1 == <<"1", "-", "S", "1">>
StrB == <<"2">>
StrX == <<"x">>
PoOrder == <<"4", "5">>
PoLonger == <<"4", "5", "0">>
PoOther == <<"4", "6">>
KeyOf(po, line_no) == po \o <<"-">> \o line_no

(* x in y, for strings *)
IsSubstr(x, y) ==
    \E i \in 0 .. (Len(y) - Len(x)) : SubSeq(y, i + 1, i + Len(x)) = x

(* int(float(ov)) of a cell holding digits; 0 for anything else, which the
   code skips (exception, or not greater than 0) *)
RECURSIVE ToInt(_)
ToInt(c) ==
    IF c = <<>> THEN 0
    ELSE LET d == CHOOSE n \in 0 .. 9 :
                    <<"0", "1", "2", "3", "4", "5", "6", "7", "8", "9">>[n + 1]
                        = c[Len(c)]
         IN  10 * ToInt(SubSeq(c, 1, Len(c) - 1)) + d

IsNumber(c) == c # <<>> /\ \A i \in 1 .. Len(c) : c[i] \in Digits

DiffLines ==
    [sku : {StrA1, StrX}, item_code : {<<>>, StrB},
     line_no : {<<>>, <<"1">>, <<"2">>}, qty : {1, 2}]
DiffCols == {"D", "E", "F", "G", "H", "I", "J", "K", "L"}
DiffRecs ==
    { [c \in DiffCols |->
         CASE c = "D" -> d [] c = "F" -> f [] c = "G" -> g [] c = "I" -> q
           [] OTHER -> <<>>] :
      d \in {<<>>, PoOrder, PoLonger, PoOther},
      f \in {<<>>, KeyOf(PoOrder, <<"1">>), StrA1, StrB},
      g \in {<<>>, KeyOf(PoOrder, <<"1">>), StrB},
      q \in {<<>>, <<"1">>} }

RECURSIVE SeqsUpTo(_, _)
SeqsUpTo(S, n) ==
    IF n = 0 THEN {<<>>}
    ELSE LET shorter == SeqsUpTo(S, n - 1)
         IN  shorter \cup
             { Append(x, e) : x \in { y \in shorter : Len(y) = n - 1 },
                              e \in S }

(* lines 1100-1110: the two lookup tables, as sets of <<key, line index>>
   with one pair per key *)
PutKey(tbl, key, i) == { x \in tbl : x[1] # key } \cup {<<key, i>>}
HasKey(tbl, key) == \E x \in tbl : x[1] = key
Lookup(tbl, key) == (CHOOSE x \in tbl : x[1] = key)[2]

RECURSIVE ByCode(_, _, _)
ByCode(lines, i, tbl) ==
    IF i > Len(lines) THEN tbl
    ELSE LET code == ItemCode(lines[i].sku)
             ic == ItemCode(lines[i].item_code)
             t1 == IF code # <<>> THEN PutKey(tbl, code, i) ELSE tbl
             t2 == IF ic # <<>> /\ ~HasKey(t1, ic) THEN PutKey(t1, ic, i)
                   ELSE t1
         IN  ByCode(lines, i + 1, t2)

RECURSIVE ByPoLine(_, _, _, _)
ByPoLine(po, lines, i, tbl) ==
    IF i > Len(lines) THEN tbl
    ELSE ByPoLine(po, lines, i + 1,
            IF po # <<>> /\ lines[i].line_no # <<>>
            THEN PutKey(tbl, KeyOf(po, lines[i].line_no), i)
            ELSE tbl)

(* str(v).strip() *)
RECURSIVE StripLeft(_)
StripLeft(v) ==
    IF v # <<>> /\ Head(v) \in Whitespace THEN StripLeft(Tail(v)) ELSE v

RECURSIVE StripRight(_)
StripRight(v) ==
    IF v # <<>> /\ v[Len(v)] \in Whitespace
    THEN StripRight(SubSeq(v, 1, Len(v) - 1)) ELSE v

Strip(v) == StripRight(StripLeft(v))

(* lines 1117-1141: the columns of a record are scanned in the order
   F G H D E I J; the first value that is a PO-line key of the order, or
   whose base item code is a code of the order, decides the match *)
MatchCols == <<"F", "G", "H", "D", "E", "I", "J">>
NoMatch == [line |-> 0, code |-> <<>>, key |-> <<>>]

RECURSIVE ScanCols(_, _, _, _, _)
ScanCols(rd, k, lines, byCode, byPoLine) ==
    IF k > Len(MatchCols) THEN NoMatch
    ELSE LET vs == Strip(rd[MatchCols[k]])
             code == ItemCode(vs)
         IN  IF vs = <<>> THEN ScanCols(rd, k + 1, lines, byCode, byPoLine)
             ELSE IF HasKey(byPoLine, vs)
             THEN [line |-> Lookup(byPoLine, vs),
                   code |-> ItemCode(lines[Lookup(byPoLine, vs)].sku),
                   key |-> vs]
             ELSE IF code # <<>> /\ HasKey(byCode, code)
             THEN [line |-> Lookup(byCode, code), code |-> code, key |-> <<>>]
             ELSE ScanCols(rd, k + 1, lines, byCode, byPoLine)

MatchFirstLine(rd, po, lines) ==
    [line |-> 1, code |-> ItemCode(lines[1].sku), key |-> <<>>]

MatchOf(rd, po, lines) ==
    ScanCols(rd, 1, lines, ByCode(lines, 1, {}), ByPoLine(po, lines, 1, {}))

(* lines 1148-1149 *)
SamePo(po, rec_po) ==
    /\ po # <<>>
    /\ rec_po # <<>>
    /\ (IsSubstr(po, rec_po) \/ IsSubstr(rec_po, po))

(* lines 1163-1174: the first of the columns I J K L holding a number
   greater than 0 is compared with the line's quantity *)
QtyCols == <<"I", "J", "K", "L">>

RECURSIVE QtyChange(_, _, _)
QtyChange(rd, k, qty) ==
    IF k > Len(QtyCols) THEN {}
    ELSE LET ov == rd[QtyCols[k]]
         IN  IF IsNumber(ov) /\ ToInt(ov) > 0
             THEN IF ToInt(ov) # qty THEN {QtyCols[k]} ELSE {}
             ELSE QtyChange(rd, k + 1, qty)

Changes(rd, ln) == IF ln.qty # 0 THEN QtyChange(rd, 1, ln.qty) ELSE {}

(* lines 1116-1238: the loop over the existing records; st collects the
   Modify actions and the matched codes and PO-line keys *)
RECURSIVE DiffRecords(_, _, _, _, _)
DiffRecords(st, recs, r, po, lines) ==
    IF r > Len(recs) THEN st
    ELSE LET m == MatchOf(recs[r], po, lines)
             st1 == [st EXCEPT
                       !.codes = IF m.line # 0 /\ m.code # <<>>
                                 THEN @ \cup {m.code} ELSE @,
                       !.keys = IF m.key # <<>> THEN @ \cup {m.key} ELSE @]
             ch == Changes(recs[r], lines[m.line])
             st2 == IF /\ m.line # 0
                       /\ SamePo(po, Strip(recs[r]["D"]))
                       /\ ch # {}
                    THEN [st1 EXCEPT !.acts = Append(@,
                            [type |-> "modify", rec |-> r, line |-> m.line,
                             changes |-> ch, sched |-> FALSE])]
                    ELSE st1
         IN  DiffRecords(st2, recs, r + 1, po, lines)

(* line 1248: the argument of auto_find *)
FindArg(ln) == IF ln.item_code # <<>> THEN ln.item_code ELSE ln.sku

(* lines 1241-1253: a New action for every line not marked as matched *)
Already(st, po, ln) ==
    \/ ItemCode(ln.sku) # <<>> /\ ItemCode(ln.sku) \in st.codes
    \/ /\ po # <<>> /\ ln.line_no # <<>>
       /\ KeyOf(po, ln.line_no) \in st.keys

RECURSIVE DiffLinesNew(_, _, _, _, _)
DiffLinesNew(st, po, lines, i, found) ==
    IF i > Len(lines) THEN st.acts
    ELSE DiffLinesNew(
            IF Already(st, po, lines[i]) THEN st
            ELSE [st EXCEPT !.acts = Append(@,
                    [type |-> "new", rec |-> 0, line |-> i, changes |-> {},
                     sched |-> FindArg(lines[i]) \in found])],
            po, lines, i + 1, found)

(* smart_diff, lines 1085-1255 *)
SmartDiff(po, lines, recs, found) ==
    DiffLinesNew(
        DiffRecords([acts |-> <<>>, codes |-> {}, keys |-> {}],
                    recs, 1, po, lines),
        po, lines, 1, found)

(* batch_upload, lines 236-265: an order with no existing rows: one New per
   line, and an issue record for every line without a reference *)
UploadNew(lines, found) ==
    [i \in 1 .. Len(lines) |->
        [type |-> "new", rec |-> 0, line |-> i, changes |-> {},
         sched |-> FindArg(lines[i]) \in found]]

IssuesOfNew(lines, found) ==
    { i \in 1 .. Len(lines) : FindArg(lines[i]) \notin found }

DiffIdle ==
    /\ dpo = <<>>
    /\ dlines = <<>>
    /\ drecs = <<>>
    /\ dfound = {}
    /\ dpc = "parsed"
    /\ dactions = <<>>
    /\ dissues = {}
    /\ dgrouped = {}

---------------------------------------------------------------------------
(* auto_find and _search_sku_in_file (SpecFind). The mapping tables of the
   first stage are empty, so no target sheet is passed; the argument holds
   no year part; the sheets listed are those the name filters keep. *)

MaxSheetRows == 3    \* rows of the sheet when one sheet is searched
MaxFileRows == 2     \* rows of a sheet when sheets and files compete
MaxSheets == 2       \* sheets of a file
MaxFiles == 2        \* files under the schedule directory
KeyDigits == 5       \* _sku_key keeps the first five digits
MinKeyLen == 4       \* shortest text used to filter file names
MaxPrefixDiff == 3   \* largest length difference of a prefix match
FirstSheetRow == 2   \* iter_rows(min_row=2)

QBase == <<"1", "2", "3", "4">>
QSpec == QBase \o <<"-", "S", "1">>
QSpec2 == QBase \o <<"-", "S", "2">>
QPrefix == QBase \o <<"H">>
QOther == <<"5">>
QName == <<"n">>
FileHit == <<"z">> \o QBase
FileMiss == <<"z">>

(* the cell values and arguments of the model, and _item_code, _sku_spec
   tabulated over them *)
FindCells == {<<>>, QSpec, QSpec2, QBase, QPrefix, QOther, QName}
CellCode == [c \in FindCells |-> ItemCode(c)]
CellSpec == [c \in FindCells |-> SkuSpec(c)]

(* lines 82-83, 356 and 360-362 *)
SkuKey(sku) ==
    LET d == SelectSeq(sku, LAMBDA c : c \in Digits)
    IN  SubSeq(d, 1, IF Len(d) < KeyDigits THEN Len(d) ELSE KeyDigits)

ItemDigits(item) == SubSeq(item, 1, Run(item, 1, Digits))

(* lines 406-410 *)
Candidates(sku) ==
    { c \in {SkuKey(sku), ItemDigits(ItemCode(sku))} : Len(c) >= MinKeyLen }

CandidatesOf == [c \in FindCells |-> Candidates(c)]

StartsWith(a, b) == Len(b) <= Len(a) /\ SubSeq(a, 1, Len(b)) = b

AbsDiff(m, n) == IF m < n THEN n - m ELSE m - n

(* lines 559-589: the columns G, F, H of a row in turn; the first cell with
   an item code that matches at some level decides the level of the row *)
SearchCols == <<"G", "F", "H">>

RECURSIVE RowTier(_, _, _, _)
RowTier(row, k, item_code, sku_spec) ==
    IF k > Len(SearchCols) THEN "none"
    ELSE LET cv == Strip(row[SearchCols[k]])
             cv_item == CellCode[cv]
         IN  IF cv_item = <<>>
             THEN RowTier(row, k + 1, item_code, sku_spec)
             ELSE IF sku_spec # <<>> /\ CellSpec[cv] = sku_spec THEN "spec"
             ELSE IF item_code # <<>> /\ cv_item = item_code THEN "exact"
             ELSE IF /\ item_code # <<>>
                     /\ AbsDiff(Len(cv_item), Len(item_code)) <= MaxPrefixDiff
                     /\ \/ StartsWith(cv_item, item_code)
                        \/ StartsWith(item_code, cv_item)
                  THEN "prefix"
             ELSE RowTier(row, k + 1, item_code, sku_spec)

(* lines 535-543: the references and counts kept while a sheet is read;
   0 stands for None *)
SheetStart ==
    [spec_named |-> 0, spec_any |-> 0, cnt_spec |-> 0,
     exact_named |-> 0, exact_any |-> 0, cnt_exact |-> 0,
     prefix_named |-> 0, prefix_any |-> 0, cnt_prefix |-> 0]

NoteRow(st, row, row_num, item_code, sku_spec) ==
    LET t == RowTier(row, 1, item_code, sku_spec)
        has_name == Strip(row["H"]) # <<>>
    IN  IF t = "spec"
        THEN [st EXCEPT !.spec_any = row_num, !.cnt_spec = @ + 1,
                        !.spec_named = IF has_name THEN row_num ELSE @]
        ELSE IF t = "exact"
        THEN [st EXCEPT !.exact_any = row_num, !.cnt_exact = @ + 1,
                        !.exact_named = IF has_name THEN row_num ELSE @]
        ELSE IF t = "prefix"
        THEN [st EXCEPT !.prefix_any = row_num, !.cnt_prefix = @ + 1,
                        !.prefix_named = IF has_name THEN row_num ELSE @]
        ELSE st

RECURSIVE ScanRows(_, _, _, _, _)
ScanRows(st, rws, i, item_code, sku_spec) ==
    IF i > Len(rws) THEN st
    ELSE ScanRows(NoteRow(st, rws[i], i + FirstSheetRow - 1, item_code,
                          sku_spec),
                  rws, i + 1, item_code, sku_spec)

(* a or b or ..., with 0 for None *)
RECURSIVE FirstSet(_)
FirstSet(q) ==
    IF q = <<>> THEN 0
    ELSE IF Head(q) # 0 THEN Head(q) ELSE FirstSet(Tail(q))

(* lines 592-593 *)
PickRefNamedFirst(st) ==
    FirstSet(<<st.spec_named, st.exact_named, st.prefix_named,
               st.spec_any, st.exact_any, st.prefix_any>>)

PickRef(st) ==
    FirstSet(<<st.spec_named, st.spec_any, st.exact_named, st.exact_any,
               st.prefix_named, st.prefix_any>>)

PickCnt(st) == FirstSet(<<st.cnt_spec, st.cnt_exact, st.cnt_prefix>>)

SheetResult(fi, k, rws, item_code, sku_spec) ==
    LET st == ScanRows(SheetStart, rws, 1, item_code, sku_spec)
    IN  [file |-> fi, sheet |-> k, ref |-> PickRef(st), cnt |-> PickCnt(st)]

NoResult == [file |-> 0, sheet |-> 0, ref |-> 0, cnt |-> 0]

(* lines 598-602, and 435, 447, 459, 473: a result replaces
   the best one so far when its count is greater *)
Better(result, best) ==
    result.ref # 0 /\ (best.ref = 0 \/ result.cnt > best.cnt)

(* _search_sku_in_file, lines 479-674 *)
RECURSIVE SearchSheets(_, _, _, _, _, _)
SearchSheets(best, fi, shs, k, item_code, sku_spec) ==
    IF k > Len(shs) THEN best
    ELSE LET result == SheetResult(fi, k, shs[k], item_code, sku_spec)
         IN  SearchSheets(IF Better(result, best) THEN result ELSE best,
                          fi, shs, k + 1, item_code, sku_spec)

SearchSkuInFile(fi, file, sku) ==
    SearchSheets(NoResult, fi, file.shs, 1, CellCode[sku], CellSpec[sku])

FindIdle ==
    /\ qsku = <<>>
    /\ qfiles = <<>>
    /\ qstage = "start"
    /\ qidx = 0
    /\ qbest = NoResult

---------------------------------------------------------------------------
(* Scheduled re-entry jobs: the schedule-retry and cancel-scheduled routes
   and the scheduled-job part of the worker's cycle (SpecSched).  A job is
   [id, time, status]; its orders are not modelled, a call of batch_process
   for the job is counted in nruns and ends normally or with an exception.
   The id is the second of the request, taken as fresh for every request. *)

(* Bounds of the model *)
MaxSched == 2        \* schedule-retry requests
MaxClock == 2        \* minutes on the clock
MaxCycles == 3       \* cycles of the worker

SchedIds == 1 .. MaxSched
SchedTimes == 0 .. MaxClock

SchedIdle ==
    /\ scheduled = <<>>
    /\ now_hm = 0
    /\ nsched = 0
    /\ wpc = "sleep"
    /\ sched_items = <<>>
    /\ sched_remaining = <<>>
    /\ sched_i = 0
    /\ nruns = [id \in SchedIds |-> 0]
    /\ ncycles = 0

---------------------------------------------------------------------------
(* Headers of inserted rows: the grouping of a batch's actions into file
   buckets and the rows _do_new_com writes for the New actions (SpecHeader).
   A header is [po_number, customer, ship_date], ship_date 0 for a header
   without one; an action carries its file, whether auto_find gave it a
   schedule, and its line, which names the order it belongs to. *)

(* Bounds of the model *)
MaxOrders == 2       \* orders in one batch
MaxOrderActs == 2    \* actions of one order

OrderFiles == {"f1", "f2"}
FirstHeaders == [po_number : {1}, customer : {1}, ship_date : {0, 1}]
OtherHeaders == [po_number : {1, 2}, customer : {1, 2}, ship_date : {0, 1, 2}]
OrderActs(o) ==
    [type : {"new"}, file : OrderFiles, schedule : BOOLEAN,
     line : [owner : {o}, delivery : {3}]]
    \cup [type : {"modify"}, file : {"f1"}, schedule : {FALSE},
          line : [owner : {o}, delivery : {3}]]
OrderActLists(o) == UNION { [1 .. n -> OrderActs(o)] : n \in 0 .. MaxOrderActs }

HeaderIdle ==
    /\ gorders = <<>>
    /\ file_ops = <<>>
    /\ gpc = "start"
    /\ gbi = 0
    /\ gni = 0
    /\ grows = <<>>

---------------------------------------------------------------------------
(* PO search: search_po for one PO and batch_search_pos for a list of POs
   over the same files (SpecSearch).  A file is [summary, skipped, rows]:
   whether its name marks a master schedule, whether its one sheet is a
   cancel or MA sheet, and the PO-number and customer-PO cells (columns D
   and E) of its rows.  A cell is empty, a text or a whole number. *)

(* Bounds of the model *)
MaxCorpus == 2       \* files under the schedule directory
MaxSearchRows == 1   \* rows of a sheet
MaxPos == 2          \* queried PO numbers

NoneCell == [kind |-> "none", v |-> <<>>]
NotRun == [status |-> "not run", map |-> {}]
Raised == [status |-> "raised", map |-> {}]
Returned(m) == [status |-> "ok", map |-> m]

SearchIdle ==
    /\ corpus = <<>>
    /\ po_list = <<>>
    /\ all_results = NotRun
    /\ single_results = {}
    /\ searched = {}

ExtraIdle == SchedIdle /\ HeaderIdle /\ SearchIdle

---------------------------------------------------------------------------
(* The undo ledger: commits, deletions and undo_selected (SpecUndo) *)

(* Bounds of the model *)
MaxTime == 2         \* seconds on the clock
MaxOps == 2          \* committed buckets and delete_entries_com calls
MaxUndo == 1         \* undo_selected calls
MaxEnv == 1          \* files removed from outside
PickLast == 3        \* the newest ledger entries: undo_selected picks among
                     \* them, and a backup lost by hand is one of theirs

(* Schedule files found by _list_xlsx (os.walk): <<directory, file name>> *)
UPaths == {<<"root", "a">>, <<"sub", "a">>, <<"root", "b">>}
BaseName(p) == p[2]
Absent == {-1}

(* A file's content is a set of marks: the mark of the file it was at the
   start, and the number of every operation that changed it *)
OrigMark(p) ==
    IF p = <<"root", "a">> THEN 101 ELSE IF p = <<"sub", "a">> THEN 102 ELSE 103
OrigMarks == { OrigMark(p) : p \in UPaths }

(* The ledger before the first modelled operation: n entries of earlier
   commits on one file, each with its backup *)
FillChoices == {0, UndoKeep - 1}
FillKey(i) == <<0 - i, "", "b">>
FillEntry(i) ==
    [id |-> FillKey(i), op |-> 0 - i,
     files |-> <<[name |-> "b", backup |-> FillKey(i), z |-> <<"root", "b">>]>>]

UndoIdle ==
    /\ uz = [p \in UPaths |-> {OrigMark(p)}]
    /\ ubak = <<>>
    /\ uhist = <<>>
    /\ utime = 1
    /\ uops = 0
    /\ uenv = 0
    /\ nundo = 0
    /\ ures = [restored |-> {}, failed |-> {}, undone |-> {}]

InitUndo ==
    /\ ProtoInit
    /\ RowsIdle
    /\ NormIdle
    /\ DiffIdle
    /\ FindIdle
    /\ ExtraIdle
    /\ uz = [p \in UPaths |-> {OrigMark(p)}]
    /\ \E n \in FillChoices :
          /\ uhist = [i \in 1 .. n |-> FillEntry(n + 1 - i)]
          /\ ubak = [k \in { FillKey(i) : i \in 1 .. n } |->
                        {OrigMark(<<"root", "b">>)}]
    /\ utime = 1
    /\ uops = 0
    /\ uenv = 0
    /\ nundo = 0
    /\ ures = [restored |-> {}, failed |-> {}, undone |-> {}]

(* shutil.copy2(src, undo_fp): create or overwrite one backup file *)
PutBackup(bak, key, content) ==
    [k \in DOMAIN bak \cup {key} |-> IF k = key THEN content ELSE bak[k]]

DropBackups(bak, keys) == [k \in DOMAIN bak \ keys |-> bak[k]]

(* the clock moves on between two operations, or does not *)
Tick ==
    /\ utime < MaxTime
    /\ utime' = utime + 1
    /\ UNCHANGED <<uz, ubak, uhist, uops, uenv, nundo, ures, rvars, pvars, tvars, dvars,
                   qvars, xvars>>

(* batch_process, lines 1306, 1344-1447: one bucket that commits: backup
   under UNDO_DIR/<batch_id>_<fname>, mutation, copy back, ledger entry
   with id <batch_id>_<fname> *)
CommitBucket(p) ==
    /\ uops < MaxOps
    /\ uz[p] # Absent
    /\ LET key == <<utime, "", BaseName(p)>>
           n == uops + 1
       IN  /\ ubak' = PutBackup(ubak, key, uz[p])
           /\ uz' = [uz EXCEPT ![p] = @ \cup {n}]
           /\ uhist' = KeepLast(Append(uhist,
                  [id |-> key, op |-> n,
                   files |-> <<[name |-> BaseName(p), backup |-> key,
                                z |-> p]>>]))
           /\ uops' = n
    /\ UNCHANGED <<utime, uenv, nundo, ures, rvars, pvars, tvars, dvars,
                   qvars, xvars>>

(* delete_entries_com, lines 2350-2406: per file, backup under
   UNDO_DIR/<batch_id>_del_<fname>, then the rows are deleted in the
   destination file itself; a file whose backup fails is skipped *)
RECURSIVE DeleteFiles(_, _, _, _)
DeleteFiles(st, ps, t, n) ==
    IF ps = <<>> THEN st
    ELSE LET p == Head(ps)
             key == <<t, "del", BaseName(p)>>
         IN  IF st.z[p] = Absent
             THEN DeleteFiles(st, Tail(ps), t, n)
             ELSE DeleteFiles(
                    [z |-> [st.z EXCEPT ![p] = @ \cup {n}],
                     bak |-> PutBackup(st.bak, key, st.z[p]),
                     files |-> Append(st.files,
                                [name |-> BaseName(p), backup |-> key,
                                 z |-> p])],
                    Tail(ps), t, n)

PathSeqs == { <<p>> : p \in UPaths } \cup
            { s \in { <<p, q>> : p \in UPaths, q \in UPaths } : s[1] # s[2] }

(* lines 2408-2419: the ledger entry, id <batch_id>_del, when a row was
   deleted *)
DeleteEntries(ps) ==
    /\ uops < MaxOps
    /\ LET n == uops + 1
           st == DeleteFiles([z |-> uz, bak |-> ubak, files |-> <<>>],
                             ps, utime, n)
       IN  /\ uz' = st.z
           /\ ubak' = st.bak
           /\ uhist' = IF st.files # <<>>
                       THEN KeepLast(Append(uhist,
                              [id |-> <<utime, "del", "">>, op |-> n,
                               files |-> st.files]))
                       ELSE uhist
           /\ uops' = n
    /\ UNCHANGED <<utime, uenv, nundo, ures, rvars, pvars, tvars, dvars,
                   qvars, xvars>>

(* undo_selected, lines 2514-2542: one file of one entry *)
RestoreTarget(z, finfo) ==
    IF z[finfo.z] # Absent THEN finfo.z ELSE <<"root", finfo.name>>

RestoreFile(st, e, k, locked) ==
    LET finfo == e.files[k]
        target == RestoreTarget(st.z, finfo)
    IN  IF \/ finfo.backup \notin DOMAIN ubak
           \/ st.z[target] = Absent
           \/ target \in locked
        THEN [st EXCEPT !.failed = @ \cup {finfo.name}]
        ELSE [st EXCEPT !.z = [@ EXCEPT ![target] = ubak[finfo.backup]],
                        !.restored = @ \cup {<<e.op, k, target>>}]

RECURSIVE RestoreFiles(_, _, _, _)
RestoreFiles(st, e, k, locked) ==
    IF k > Len(e.files) THEN st
    ELSE RestoreFiles(RestoreFile(st, e, k, locked), e, k + 1, locked)

(* lines 2544-2545: the entry counts as undone when none of its file names
   is in the failed list of the call *)
EntryUndone(st, e) ==
    \A k \in 1 .. Len(e.files) : e.files[k].name \notin st.failed

RECURSIVE RestoreEntries(_, _, _)
RestoreEntries(st, es, locked) ==
    IF es = <<>> THEN st
    ELSE LET st1 == RestoreFiles(st, Head(es), 1, locked)
             st2 == IF EntryUndone(st1, Head(es))
                    THEN [st1 EXCEPT !.undone = @ \cup {Head(es).id}]
                    ELSE st1
         IN  RestoreEntries(st2, Tail(es), locked)

SelectById(h, ids) == SelectSeq(h, LAMBDA e : e.id \in ids)
RejectById(h, ids) == SelectSeq(h, LAMBDA e : e.id \notin ids)

BackupsOf(h) ==
    UNION { { h[i].files[k].backup : k \in 1 .. Len(h[i].files) } :
            i \in 1 .. Len(h) }

Newest(h) ==
    IF Len(h) > PickLast THEN SubSeq(h, Len(h) - PickLast + 1, Len(h)) ELSE h

PickableIds == { Newest(uhist)[i].id : i \in 1 .. Len(Newest(uhist)) }

(* undo_selected, lines 2499-2569; locked: the destinations that cannot be
   opened for writing during the call *)
UndoSelected(batch_ids, locked) ==
    /\ nundo < MaxUndo
    /\ batch_ids # {}
    /\ SelectById(uhist, batch_ids) # <<>>
    /\ LET st == RestoreEntries(
                    [z |-> uz, restored |-> {}, failed |-> {}, undone |-> {}],
                    SelectById(uhist, batch_ids), locked)
       IN  /\ uz' = st.z
           /\ uhist' = IF st.undone # {} THEN RejectById(uhist, st.undone)
                       ELSE uhist
           /\ ubak' = DropBackups(ubak,
                         BackupsOf(SelectById(uhist, st.undone)))
           /\ ures' = [restored |-> st.restored, failed |-> st.failed,
                       undone |-> st.undone]
    /\ nundo' = nundo + 1
    /\ UNCHANGED <<utime, uops, uenv, rvars, pvars, tvars, dvars,
                   qvars, xvars>>

(* a schedule file is moved or deleted by a user of the share *)
RemoveDest(p) ==
    /\ uenv < MaxEnv
    /\ uz[p] # Absent
    /\ uz' = [uz EXCEPT ![p] = Absent]
    /\ uenv' = uenv + 1
    /\ UNCHANGED <<ubak, uhist, utime, uops, nundo, ures, rvars, pvars, tvars, dvars,
                   qvars, xvars>>

(* a backup file is deleted from UNDO_DIR by hand *)
LoseBackup(key) ==
    /\ uenv < MaxEnv
    /\ key \in DOMAIN ubak
    /\ ubak' = DropBackups(ubak, {key})
    /\ uenv' = uenv + 1
    /\ UNCHANGED <<uz, uhist, utime, uops, nundo, ures, rvars, pvars, tvars, dvars,
                   qvars, xvars>>

NextUndo ==
    \/ Tick
    \/ \E p \in UPaths : CommitBucket(p)
    \/ \E ps \in PathSeqs : DeleteEntries(ps)
    \/ \E ids \in SUBSET PickableIds, locked \in SUBSET UPaths :
          UndoSelected(ids, locked)
    \/ \E p \in UPaths : RemoveDest(p)
    \/ \E key \in BackupsOf(Newest(uhist)) : LoseBackup(key)

SpecUndo == InitUndo /\ [][NextUndo]_vars

(* One uploaded order document *)
InitDiff ==
    /\ ProtoInit
    /\ RowsIdle
    /\ UndoIdle
    /\ NormIdle
    /\ FindIdle
    /\ ExtraIdle
    /\ dpo \in {<<>>, PoOrder}
    /\ dlines \in SeqsUpTo(DiffLines, MaxLines) \ {<<>>}
    /\ drecs \in SeqsUpTo(DiffRecs, MaxRecs)
    /\ dfound \in {{}, {StrA1, StrB, StrX}}
    /\ dpc = "parsed"
    /\ dactions = <<>>
    /\ dissues = {}
    /\ dgrouped = {}

(* batch_upload, lines 232-265: the action list of the order *)
Analyse ==
    /\ dpc = "parsed"
    /\ dactions' = IF drecs # <<>> THEN SmartDiff(dpo, dlines, drecs, dfound)
                   ELSE UploadNew(dlines, dfound)
    /\ dissues' = IF drecs # <<>> THEN dissues
                  ELSE dissues \cup IssuesOfNew(dlines, dfound)
    /\ dpc' = "analysed"
    /\ UNCHANGED <<dpo, dlines, drecs, dfound, dgrouped, rvars, pvars, uvars,
                   tvars, qvars, xvars>>

(* batch_process, lines 1309-1329: the actions that reach a file bucket; a
   New without schedule belongs to none, and only buckets can be reported
   in 'results' or 'failed' *)
Grouped(acts) ==
    { i \in 1 .. Len(acts) :
        acts[i].type # "new" \/ acts[i].sched }

CommitOrder ==
    /\ dpc = "analysed"
    /\ dgrouped' = Grouped(dactions)
    /\ dpc' = "committed"
    /\ UNCHANGED <<dpo, dlines, drecs, dfound, dactions, dissues, rvars,
                   pvars, uvars, tvars, qvars, xvars>>

NextDiff == Analyse \/ CommitOrder

SpecDiff == InitDiff /\ [][NextDiff]_vars

(* ---- SpecFind: one call of auto_find ---- *)

SheetRows == [G : {<<>>, QSpec, QSpec2, QBase, QPrefix, QOther},
              F : {<<>>, QSpec}, H : {<<>>, QName}]

FileRows == [G : {QSpec, QBase, QPrefix}, F : {<<>>}, H : {QName}]

FileSheets == SeqsUpTo(FileRows, MaxFileRows)

FilesOf(shsets) == [name : {FileHit, FileMiss}, shs : shsets]

InitFind ==
    /\ ProtoInit
    /\ RowsIdle
    /\ UndoIdle
    /\ NormIdle
    /\ DiffIdle
    /\ ExtraIdle
    /\ \/ /\ qsku \in {QSpec, QBase}
          /\ \E rws \in SeqsUpTo(SheetRows, MaxSheetRows) :
                qfiles = <<[name |-> FileHit, shs |-> <<rws>>]>>
       \/ /\ qsku = QSpec
          /\ qfiles \in SeqsUpTo(
                FilesOf(SeqsUpTo(FileSheets, MaxSheets) \ {<<>>}), MaxFiles)
          /\ Len(qfiles) = MaxFiles => Len(qfiles[MaxFiles].shs) = 1
    /\ qstage = "start"
    /\ qidx = 0
    /\ qbest = NoResult

(* lines 354-422: no mapping; with candidate texts the
   files are filtered by name, otherwise every file is searched *)
FindStart ==
    /\ qstage = "start"
    /\ qstage' = IF CandidatesOf[qsku] # {} THEN "names" ELSE "all"
    /\ qidx' = 1
    /\ qbest' = NoResult
    /\ UNCHANGED <<qsku, qfiles, rvars, pvars, uvars, tvars, dvars, xvars>>

(* lines 423-436 and 451-460: one file of the loop over the files whose
   name holds a candidate text *)
FindByName ==
    /\ qstage = "names"
    /\ qidx <= Len(qfiles)
    /\ LET result == SearchSkuInFile(qidx, qfiles[qidx], qsku)
       IN  qbest' =
             IF /\ \E c \in CandidatesOf[qsku] : IsSubstr(c, qfiles[qidx].name)
                /\ Better(result, qbest)
             THEN result ELSE qbest
    /\ qidx' = qidx + 1
    /\ UNCHANGED <<qsku, qfiles, qstage, rvars, pvars, uvars, tvars, dvars, xvars>>

(* lines 461-466: return the best file by name, or go on to the
   search of every file *)
FindByNameEnd ==
    /\ qstage = "names"
    /\ qidx > Len(qfiles)
    /\ qstage' = IF qbest.ref # 0 THEN "done" ELSE "all"
    /\ qidx' = 1
    /\ UNCHANGED <<qsku, qfiles, qbest, rvars, pvars, uvars, tvars, dvars, xvars>>

(* lines 466-474 *)
FindAll ==
    /\ qstage = "all"
    /\ qidx <= Len(qfiles)
    /\ LET result == SearchSkuInFile(qidx, qfiles[qidx], qsku)
       IN  qbest' = IF Better(result, qbest) THEN result ELSE qbest
    /\ qidx' = qidx + 1
    /\ UNCHANGED <<qsku, qfiles, qstage, rvars, pvars, uvars, tvars, dvars, xvars>>

(* lines 475-477 *)
FindAllEnd ==
    /\ qstage = "all"
    /\ qidx > Len(qfiles)
    /\ qstage' = "done"
    /\ UNCHANGED <<qsku, qfiles, qidx, qbest, rvars, pvars, uvars, tvars,
                   dvars, xvars>>

NextFind == FindStart \/ FindByName \/ FindByNameEnd \/ FindAll \/ FindAllEnd

SpecFind == InitFind /\ [][NextFind]_vars

(* _item_code and _sku_spec applied to one argument *)
InitNorm ==
    /\ ProtoInit
    /\ RowsIdle
    /\ UndoIdle
    /\ DiffIdle
    /\ FindIdle
    /\ ExtraIdle
    /\ tin \in NormInputs
    /\ tdone = FALSE
    /\ tcode = <<>>
    /\ tspec = <<>>

Normalize ==
    /\ ~tdone
    /\ tcode' = ItemCode(tin)
    /\ tspec' = SkuSpec(tin)
    /\ tdone' = TRUE
    /\ UNCHANGED <<tin, rvars, pvars, uvars, dvars,
                   qvars, xvars>>

NextNorm == Normalize

SpecNorm == InitNorm /\ [][NextNorm]_vars

(* The worker's lists hold the job objects themselves: 'remaining' holds
   objects of 'items', so a status set in the loop shows in both *)
RemainingItems == [k \in 1 .. Len(sched_remaining) |->
                      sched_items[sched_remaining[k]]]

InitSched ==
    /\ ProtoInit /\ RowsIdle /\ UndoIdle /\ NormIdle /\ DiffIdle /\ FindIdle
    /\ SchedIdle /\ HeaderIdle /\ SearchIdle

(* schedule_retry, app.py lines 1120-1140 *)
ScheduleRetry(t) ==
    /\ nsched < MaxSched
    /\ nsched' = nsched + 1
    /\ scheduled' = Append(scheduled,
                        [id |-> nsched + 1, time |-> t, status |-> "pending"])
    /\ UNCHANGED <<now_hm, wpc, sched_items, sched_remaining, sched_i, nruns,
                   ncycles, rvars, pvars, ovars, hvars, kvars>>

(* cancel_scheduled, app.py lines 1148-1155 *)
CancelScheduled(task_id) ==
    /\ \E k \in 1 .. Len(scheduled) : scheduled[k].id = task_id
    /\ scheduled' = SelectSeq(scheduled, LAMBDA i : i.id # task_id)
    /\ UNCHANGED <<now_hm, nsched, wpc, sched_items, sched_remaining, sched_i,
                   nruns, ncycles, rvars, pvars, ovars, hvars, kvars>>

MinutePasses ==
    /\ now_hm < MaxClock
    /\ now_hm' = now_hm + 1
    /\ UNCHANGED <<scheduled, nsched, wpc, sched_items, sched_remaining,
                   sched_i, nruns, ncycles, rvars, pvars, ovars, hvars, kvars>>

(* _auto_retry_worker, app.py lines 1176-1179: a cycle starts, the file is
   read *)
CycleRead ==
    /\ wpc = "sleep"
    /\ ncycles < MaxCycles
    /\ ncycles' = ncycles + 1
    /\ sched_items' = scheduled
    /\ sched_remaining' = <<>>
    /\ sched_i' = 1
    /\ wpc' = "loop"
    /\ UNCHANGED <<scheduled, now_hm, nsched, nruns, rvars, pvars, ovars, hvars, kvars>>

(* lines 1180-1200: one item of the loop.  An item that is not pending is
   dropped; a due item is run, its status set in place to 'done', or to
   'error' when batch_process raised; every pending item is kept *)
CycleItem(outcome) ==
    /\ wpc = "loop"
    /\ sched_i <= Len(sched_items)
    /\ LET item == sched_items[sched_i]
       IN  IF item.status # "pending"
           THEN UNCHANGED <<sched_items, sched_remaining, nruns>>
           ELSE /\ sched_remaining' = Append(sched_remaining, sched_i)
                /\ IF item.time <= now_hm
                   THEN /\ nruns' = [nruns EXCEPT ![item.id] = @ + 1]
                        /\ sched_items' = [sched_items EXCEPT
                                             ![sched_i].status = outcome]
                   ELSE UNCHANGED <<sched_items, nruns>>
    /\ sched_i' = sched_i + 1
    /\ UNCHANGED <<scheduled, now_hm, nsched, wpc, ncycles, rvars, pvars,
                   ovars, hvars, kvars>>

(* lines 1201-1202: the file is written when 'remaining' differs from
   'items'; then the worker sleeps *)
CycleSave ==
    /\ wpc = "loop"
    /\ sched_i > Len(sched_items)
    /\ scheduled' = IF RemainingItems # sched_items THEN RemainingItems
                    ELSE scheduled
    /\ wpc' = "sleep"
    /\ UNCHANGED <<now_hm, nsched, sched_items, sched_remaining, sched_i,
                   nruns, ncycles, rvars, pvars, ovars, hvars, kvars>>

NextSched ==
    \/ \E t \in SchedTimes : ScheduleRetry(t)
    \/ \E task_id \in SchedIds : CancelScheduled(task_id)
    \/ MinutePasses
    \/ CycleRead
    \/ \E outcome \in {"done", "error"} : CycleItem(outcome)
    \/ CycleSave

SpecSched == InitSched /\ [][NextSched]_vars

(* batch_process, lines 1309-1329: file_ops, as a sequence of buckets in
   insertion order.  A New action without a schedule enters no bucket; the
   bucket of a file gets the header of the order whose action created it *)
BucketOf(fo, fkey) == CHOOSE k \in 1 .. Len(fo) : fo[k].file = fkey
HasBucket(fo, fkey) == \E k \in 1 .. Len(fo) : fo[k].file = fkey

AddAct(fo, order, act) ==
    IF act.type = "new" /\ ~act.schedule THEN fo
    ELSE LET with == IF HasBucket(fo, act.file) THEN fo
                     ELSE Append(fo, [file |-> act.file, new |-> <<>>,
                                      modify |-> <<>>,
                                      header |-> order.header])
             k == BucketOf(with, act.file)
         IN  IF act.type = "new"
             THEN [with EXCEPT ![k].new = Append(@, act)]
             ELSE [with EXCEPT ![k].modify = Append(@, act)]

RECURSIVE AddActs(_, _, _)
AddActs(fo, order, i) ==
    IF i > Len(order.actions) THEN fo
    ELSE AddActs(AddAct(fo, order, order.actions[i]), order, i + 1)

RECURSIVE GroupOrders(_, _, _)
GroupOrders(fo, orders, i) ==
    IF i > Len(orders) THEN fo
    ELSE GroupOrders(AddActs(fo, orders[i], 1), orders, i + 1)

(* _do_new_com, lines 1614 and 1719-1744: the order fields of the new row
   come from the header it is given; the ship date falls back to the
   line's delivery date *)
NewRowFields(header, ln) ==
    [po_number |-> header.po_number,
     customer |-> header.customer,
     ship |-> IF header.ship_date # 0 THEN header.ship_date ELSE ln.delivery]

InitHeader ==
    /\ ProtoInit /\ RowsIdle /\ UndoIdle /\ NormIdle /\ DiffIdle /\ FindIdle
    /\ SchedIdle /\ SearchIdle
    /\ \E h1 \in FirstHeaders, a1 \in OrderActLists(1) :
          \/ gorders = <<[header |-> h1, actions |-> a1]>>
          \/ \E h2 \in OtherHeaders, a2 \in OrderActLists(2) :
                gorders = <<[header |-> h1, actions |-> a1],
                            [header |-> h2, actions |-> a2]>>
    /\ file_ops = <<>>
    /\ gpc = "start"
    /\ gbi = 0
    /\ gni = 0
    /\ grows = <<>>

(* batch_process, lines 1308-1329 *)
GroupBatch ==
    /\ gpc = "start"
    /\ file_ops' = GroupOrders(<<>>, gorders, 1)
    /\ gpc' = "files"
    /\ gbi' = 1
    /\ gni' = 1
    /\ UNCHANGED <<gorders, grows, rvars, pvars, ovars, cvars, kvars>>

(* lines 1385-1402: the next New action of the bucket, written with the
   bucket's header *)
WriteNew ==
    /\ gpc = "files"
    /\ gbi <= Len(file_ops)
    /\ gni <= Len(file_ops[gbi].new)
    /\ LET ops_ == file_ops[gbi]
           act == ops_.new[gni]
       IN  grows' = Append(grows,
                       [file |-> ops_.file, line |-> act.line,
                        fields |-> NewRowFields(ops_.header, act.line)])
    /\ gni' = gni + 1
    /\ UNCHANGED <<gorders, file_ops, gpc, gbi, rvars, pvars, ovars, cvars, kvars>>

(* line 1344: the loop over file_ops goes on to the next bucket *)
NextBucket ==
    /\ gpc = "files"
    /\ gbi <= Len(file_ops)
    /\ gni > Len(file_ops[gbi].new)
    /\ gbi' = gbi + 1
    /\ gni' = 1
    /\ UNCHANGED <<gorders, file_ops, gpc, grows, rvars, pvars, ovars, cvars, kvars>>

BatchEnd ==
    /\ gpc = "files"
    /\ gbi > Len(file_ops)
    /\ gpc' = "done"
    /\ UNCHANGED <<gorders, file_ops, gbi, gni, grows, rvars, pvars, ovars,
                   cvars, kvars>>

NextHeader == GroupBatch \/ WriteNew \/ NextBucket \/ BatchEnd

SpecHeader == InitHeader /\ [][NextHeader]_vars

(* The rows both searches look at, lines 777-799 and 848-872: the rows of
   the files that are no master schedule and whose sheet is not skipped, in
   the order of the files, as [file, row, d, e] *)
RECURSIVE EligibleRows(_, _)
EligibleRows(fs, i) ==
    IF i > Len(fs) THEN <<>>
    ELSE (IF fs[i].summary \/ fs[i].skipped THEN <<>>
          ELSE [r \in 1 .. Len(fs[i].rows) |->
                   [file |-> i, row |-> r,
                    d |-> fs[i].rows[r].d, e |-> fs[i].rows[r].e]])
         \o EligibleRows(fs, i + 1)

(* search_po, lines 804-807: str(c) == po_s or (po_i and c == po_i) or
   po_s in str(c), for a cell that is not empty *)
CellHit(c, po_s) ==
    /\ c.kind # "none"
    /\ \/ c.v = po_s
       \/ IsNumber(po_s) /\ ToInt(po_s) # 0 /\ c.kind = "int"
            /\ ToInt(c.v) = ToInt(po_s)
       \/ IsSubstr(po_s, c.v)

(* search_po, lines 773-831 *)
SearchPo(fs, po_s) ==
    SelectSeq(EligibleRows(fs, 1),
              LAMBDA x : CellHit(x.d, po_s) \/ CellHit(x.e, po_s))

(* batch_search_pos, lines 874-890: the one PO a cell is matched to: the PO
   equal to the cell's text, else the numerically equal PO, else the first
   PO, in the iteration order ord of po_set, the text contains *)
RECURSIVE FirstContained(_, _, _)
FirstContained(ord, k, vs) ==
    IF k > Len(ord) THEN <<>>
    ELSE IF IsSubstr(ord[k], vs) THEN ord[k]
    ELSE FirstContained(ord, k + 1, vs)

MatchVal(val, ord) ==
    LET vs == Strip(val.v)
        po_set == { ord[k] : k \in 1 .. Len(ord) }
    IN  IF val.kind = "none" THEN <<>>
        ELSE IF vs \in po_set THEN vs
        ELSE IF val.kind = "int"
                /\ \E ps \in po_set : IsNumber(ps) /\ ToInt(ps) = ToInt(val.v)
        THEN CHOOSE ps \in po_set : IsNumber(ps) /\ ToInt(ps) = ToInt(val.v)
        ELSE FirstContained(ord, 1, vs)

Matched(x, ord) ==
    IF MatchVal(x.d, ord) # <<>> THEN MatchVal(x.d, ord)
    ELSE MatchVal(x.e, ord)

(* batch_search_pos, lines 833-922, with the POs of po_set iterated in the
   order ord: the empty dict for no PO; ThreadPoolExecutor(max_workers=0)
   raises ValueError when no file is left to scan *)
BatchSearchPos(fs, ord) ==
    LET po_set == { ord[k] : k \in 1 .. Len(ord) }
        files == SelectSeq(fs, LAMBDA f : ~f.summary)
    IN  IF po_set = {} THEN Returned({})
        ELSE IF files = <<>> THEN Raised
        ELSE Returned({ <<ps, SelectSeq(EligibleRows(fs, 1),
                                       LAMBDA x : Matched(x, ord) = ps)>> :
                        ps \in po_set })

(* the orders in which a set of at most MaxPos strings can be iterated *)
OrdersOf(S) ==
    { o \in SeqsUpTo(S, MaxPos) :
        /\ Len(o) = Cardinality(S)
        /\ { o[k] : k \in 1 .. Len(o) } = S }

SearchCells ==
    { NoneCell, [kind |-> "str", v |-> PoLonger], [kind |-> "int", v |-> PoOrder],
      [kind |-> "str", v |-> PoOther] }
SearchRows == [d : SearchCells, e : {NoneCell, [kind |-> "str", v |-> PoOrder]}]
SearchFiles ==
    [summary : BOOLEAN, skipped : BOOLEAN,
     rows : SeqsUpTo(SearchRows, MaxSearchRows)]
SearchPos == {PoOrder, PoLonger, PoOther}

InitSearch ==
    /\ ProtoInit /\ RowsIdle /\ UndoIdle /\ NormIdle /\ DiffIdle /\ FindIdle
    /\ SchedIdle /\ HeaderIdle
    /\ corpus \in SeqsUpTo(SearchFiles, MaxCorpus)
    /\ po_list \in SeqsUpTo(SearchPos, MaxPos)
    /\ all_results = NotRun
    /\ single_results = {}
    /\ searched = {}

BatchSearch ==
    /\ "batch" \notin searched
    /\ \E ord \in OrdersOf({ po_list[k] : k \in 1 .. Len(po_list) }) :
          all_results' = BatchSearchPos(corpus, ord)
    /\ searched' = searched \cup {"batch"}
    /\ UNCHANGED <<corpus, po_list, single_results, rvars, pvars, ovars,
                   cvars, hvars>>

SingleSearches ==
    /\ "single" \notin searched
    /\ single_results' = { <<ps, SearchPo(corpus, ps)>> :
                             ps \in { po_list[k] : k \in 1 .. Len(po_list) } }
    /\ searched' = searched \cup {"single"}
    /\ UNCHANGED <<corpus, po_list, all_results, rvars, pvars, ovars, cvars,
                   hvars>>

NextSearch == BatchSearch \/ SingleSearches

SpecSearch == InitSearch /\ [][NextSearch]_vars

Init ==
    /\ ProtoInit /\ RowsIdle /\ UndoIdle /\ NormIdle /\ DiffIdle /\ FindIdle
    /\ ExtraIdle

Next ==
    \/ \E j \in Jobs : Start(j)
    \/ \E j \in Jobs : Backup(j)
    \/ \E j \in Jobs : Stage(j)
    \/ \E j \in Jobs : Open(j)
    \/ \E j \in Jobs : Mutate(j)
    \/ \E j \in Jobs : Save(j)
    \/ \E j \in Jobs : CopyBackOk(j)
    \/ \E j \in Jobs : CopyBackBusy(j)
    \/ \E j \in Jobs : Raise(j)
    \/ \E j \in Jobs : PostExecute(j)
    \/ \E j \in Jobs : PostReentry(j)
    \/ \E j \in Jobs : PostScheduled(j)
    \/ SweepStart
    \/ SweepItemOk
    \/ SweepItemFail
    \/ SweepSave
    \/ RetryCopyOk
    \/ RetryCopyFail
    \/ RetryUpdate
    \/ ClearPending

Spec == Init /\ [][Next]_vars

---------------------------------------------------------------------------
InitRows ==
    /\ ProtoInit
    /\ UndoIdle
    /\ NormIdle
    /\ DiffIdle
    /\ FindIdle
    /\ ExtraIdle
    /\ \E p \in ShipPatterns :
          sheets = [sn \in SheetNames |-> InitSheet(sn, p)]
    /\ archive = <<>>
    /\ isSummary \in BOOLEAN
    /\ \E acts \in ActLists : ops = GroupOps(acts)
    /\ nc = 0 /\ nm = 0 /\ nn = 0
    /\ deleted_rows = <<>>
    /\ inserted_positions = [sn \in SheetNames |-> <<>>]
    /\ last_insert_pos = [sn \in SheetNames |-> 0]

(* lines 1361-1368 with _do_cancel_com, lines 1928-1980 *)
RowsCancel ==
    /\ nc < Len(CancelOps)
    /\ LET act == CancelOps[nc + 1]
           sn == act.sheet
           rn == act.row
       IN  /\ archive' = IF isSummary THEN archive
                         ELSE Append(archive, RowAt(sheets[sn], rn).id)
           /\ sheets' = [sheets EXCEPT ![sn] = DeleteRow(@, rn)]
           /\ deleted_rows' = Append(deleted_rows, <<sn, rn>>)
    /\ nc' = nc + 1
    /\ UNCHANGED <<isSummary, ops, nm, nn, inserted_positions, last_insert_pos>>
    /\ UNCHANGED <<pvars, ovars, xvars>>

(* lines 1371-1380 with _do_modify_com, lines 1901-1924 *)
RowsModify ==
    /\ nc = Len(CancelOps)
    /\ nm < Len(ops.modify)
    /\ LET act == ops.modify[nm + 1]
           sn == act.sheet
           adj_row == act.row - Shift(deleted_rows, sn, act.row)
       IN  sheets' = [sheets EXCEPT ![sn] = DoModify(@, adj_row, nm + 1)]
    /\ nm' = nm + 1
    /\ UNCHANGED <<archive, isSummary, ops, nc, nn, deleted_rows,
                   inserted_positions, last_insert_pos>>
    /\ UNCHANGED <<pvars, ovars, xvars>>

(* lines 1385-1402 with _do_new_com, lines 1608-1629 *)
RowsNew ==
    /\ nc = Len(CancelOps)
    /\ nm = Len(ops.modify)
    /\ nn < Len(ops.new)
    /\ LET act == ops.new[nn + 1]
           sn == act.sheet
           adj_ref == AdjRef(deleted_rows, inserted_positions[sn], sn, act.ref)
           res == DoNew(sheets[sn], adj_ref, act.ship, last_insert_pos[sn],
                        nn + 1)
       IN  /\ sheets' = [sheets EXCEPT ![sn] = res.sheet]
           /\ inserted_positions' =
                 [inserted_positions EXCEPT ![sn] = Append(@, res.pos)]
           /\ last_insert_pos' = [last_insert_pos EXCEPT ![sn] = res.pos]
    /\ nn' = nn + 1
    /\ UNCHANGED <<archive, isSummary, ops, nc, nm, deleted_rows>>
    /\ UNCHANGED <<pvars, ovars, xvars>>

NextRows == RowsCancel \/ RowsModify \/ RowsNew

SpecRows == InitRows /\ [][NextRows]_vars

---------------------------------------------------------------------------
(* Helpers of the properties *)
IdsOf(s) == { s[r].id : r \in 1 .. Len(s) }
Present(rid) == \E sn \in SheetNames : rid \in IdsOf(sheets[sn])
OriginalIds == { <<sn, r>> : sn \in SheetNames, r \in 1 .. LastRow0 }
CancelsDone == nc = Len(CancelOps)

(* C2: every Modify of the bucket whose referenced record is still on its
   sheet after the cancel phase is written to that record and to no other
   row; before any insertion that row is (original row - number of deleted
   records of the same sheet that stood above it), and deletions on other
   sheets do not count. *)
RemovedAbove(sn, row) ==
    { r \in 1 .. (row - 1) : ~Present(<<sn, r>>) }

C2_ModifyHitsReferencedRecord ==
    \A i \in 1 .. nm :
        LET a == ops.modify[i]
            rid == <<a.sheet, a.row>>
        IN  Present(rid) =>
              /\ \A sn \in SheetNames : \A r \in 1 .. Len(sheets[sn]) :
                    (i \in sheets[sn][r].mods) <=> (sheets[sn][r].id = rid)
              /\ nn = 0 =>
                    LET tgt == a.row - Cardinality(RemovedAbove(a.sheet, a.row))
                    IN  /\ tgt \in 1 .. Len(sheets[a.sheet])
                        /\ i \in sheets[a.sheet][tgt].mods

C2_Witness ==
    /\ nm >= 1
    /\ LET a == ops.modify[1]
       IN  /\ Present(<<a.sheet, a.row>>)
           /\ \E j \in 1 .. Len(deleted_rows) :
                 deleted_rows[j][1] = a.sheet /\ deleted_rows[j][2] < a.row
           /\ \E j \in 1 .. Len(deleted_rows) :
                 deleted_rows[j][1] # a.sheet /\ deleted_rows[j][2] < a.row

(* C3: once the cancels of a bucket are applied, the records missing from
   the sheets are exactly the records that stood at the referenced
   (sheet, row) positions before the batch, and deleted_rows holds exactly
   the referenced pairs. *)
ReferencedByCancel == { <<ops.cancel[i].sheet, ops.cancel[i].row>> :
                          i \in 1 .. Len(ops.cancel) }
RemovedIds == { rid \in OriginalIds : ~Present(rid) }

C3_DeletedAreReferenced ==
    CancelsDone =>
        /\ RemovedIds = ReferencedByCancel
        /\ { deleted_rows[j] : j \in 1 .. Len(deleted_rows) } = ReferencedByCancel

(* The same statement for cancel lists that name no (sheet, row) twice. *)
DistinctCancels ==
    \A i, j \in 1 .. Len(ops.cancel) :
        (ops.cancel[i].sheet = ops.cancel[j].sheet
         /\ ops.cancel[i].row = ops.cancel[j].row) => i = j

C3_DistinctDeletedAreReferenced ==
    (CancelsDone /\ DistinctCancels) =>
        /\ RemovedIds = ReferencedByCancel
        /\ { deleted_rows[j] : j \in 1 .. Len(deleted_rows) } = ReferencedByCancel

(* C4: every New of the bucket whose reference record is still on its sheet
   after the cancel phase is inserted on that sheet as a copy of the record
   that stood at schedule.ref before the batch, whatever was deleted above
   it, inserted before it in this batch, or done on the other sheets. *)
C4_NewCopiesReferenceRecord ==
    \A k \in 1 .. nn :
        LET a == ops.new[k]
            rid == <<a.sheet, a.ref>>
        IN  Present(rid) =>
              /\ \E r \in 1 .. Len(sheets[a.sheet]) :
                    sheets[a.sheet][r].id = <<"new", k>>
              /\ \A sn \in SheetNames : \A r \in 1 .. Len(sheets[sn]) :
                    sheets[sn][r].id = <<"new", k>> =>
                        (sn = a.sheet /\ sheets[sn][r].tmpl = rid)

C4_Witness ==
    /\ nn = 2
    /\ ops.new[1].sheet = ops.new[2].sheet
    /\ LET a == ops.new[2]
           ps == inserted_positions[a.sheet]
       IN  /\ Present(<<a.sheet, a.ref>>)
           /\ Shift(deleted_rows, a.sheet, a.ref) = 1
           /\ ps[1] <= a.ref - 1
           /\ ps[2] <= a.ref

---------------------------------------------------------------------------
(* Claims about the commit protocol, checked under Spec *)

InFlight == {"stage", "open", "mutate", "copyback"}

(* C1: at most one mutation of a given target file is in flight: no two
   batch_process calls are between the stage copy and the copy-back of the
   same file at the same time. *)
C1_OneMutationPerFile ==
    \A j1, j2 \in Jobs :
        (j1 # j2 /\ pc[j1] \in InFlight /\ pc[j2] \in InFlight)
            => CurFile(j1) # CurFile(j2)

(* C5: while a bucket is being mutated or copied back, its undo backup
   exists and holds none of the bucket's actions, and the actions written
   so far respect the order cancels, then modifies, then news. *)
TypeRank(t) == CASE t = "cancel" -> 1 [] t = "modify" -> 2 [] t = "new" -> 3
               [] OTHER -> 0

C5_BackupFirstThenTypeOrder ==
    \A j \in Jobs :
        pc[j] = "mutate" =>
            /\ undo[<<j, CurFile(j)>>] # Missing
            /\ TokensOf(undo[<<j, CurFile(j)>>], j) = {}
            /\ Cardinality(TokensOf(wb[j], j)) = ka[j]
            /\ \A t \in TokensOf(wb[j], j) :
                  \A u \in { <<j, ty, i>> : ty \in {"cancel", "modify", "new"},
                                            i \in 1 .. ActsPerType } :
                      TypeRank(u[2]) < TypeRank(t[2]) => u \in wb[j]

C5_Witness ==
    \E j \in Jobs :
        /\ pc[j] = "mutate"
        /\ ka[j] = NActs
        /\ undo[<<j, CurFile(j)>>] # Missing
        /\ <<j, "new", ActsPerType>> \in wb[j]

(* C6: a destination file holds, for every batch, either none of the
   actions of that batch's bucket or all of them, at every moment and
   whatever failed. *)
C6_DestNeverPartial ==
    \A f \in Files : \A j \in Jobs :
        LET mine == { t \in dest[f] : t[1] = j }
        IN  \/ mine = {}
            \/ mine = { <<j, ty, i>> : ty \in {"cancel", "modify", "new"},
                                       i \in 1 .. ActsPerType }

C6_Witness ==
    \E j \in Jobs :
        /\ pc[j] = "done"
        /\ Len(jfiles[j]) = 1
        /\ ka[j] \in 1 .. (NActs - 1)
        /\ failed[j] # <<>>
        /\ dest[jfiles[j][1]] = {}
        /\ \E x \in Jobs : x # j /\ pc[x] = "done" /\ results[x] # <<>>

(* C7: when batch_process has returned, every bucket of the batch is in
   exactly one of 'results' and 'failed', every failed entry has a reason,
   and after batch_execute has written its history the committed files have
   their entries and the failed files have none. *)
SeqRange(q) == { q[i] : i \in 1 .. Len(q) }

ActionEntriesOf(j, f) ==
    { e \in BagToSet(history) :
        e[1] = j /\ e[3] = f /\ e[2] \in {"cancel", "modify", "new"} }

C7_FailedBucketIsolated ==
    \A j \in Jobs :
        pc[j] \in {"returned", "done"} =>
            /\ Len(results[j]) + Len(failed[j]) = Len(jfiles[j])
            /\ \A f \in SeqRange(jfiles[j]) :
                  (f \in SeqRange(results[j])) # (f \in FailedFiles(j))
            /\ \A i \in 1 .. Len(failed[j]) :
                  failed[j][i].why \in {"exc", "busy"}
            /\ (pc[j] = "done" /\ jkind[j] = "execute") =>
                  /\ \A f \in FailedFiles(j) : ActionEntriesOf(j, f) = {}
                  /\ \A f \in SeqRange(results[j]) :
                        \A ty \in {"cancel", "modify", "new"} :
                            CopiesIn(<<j, ty, f>>, history) = ActsPerType

C7_Witness ==
    \E j \in Jobs :
        /\ pc[j] = "done"
        /\ jkind[j] = "execute"
        /\ Len(jfiles[j]) = 2
        /\ failed[j] = <<[file |-> jfiles[j][1], why |-> "exc"]>>
        /\ results[j] = <<jfiles[j][2]>>

(* C8: when a commit request finishes, every file of its batch whose copy
   onto the destination failed as busy has a Pending Retry Item in the
   queue, on the batch-execute, the re-entry and the scheduled path. *)
BusyFiles(j) ==
    { failed[j][i].file :
        i \in { x \in 1 .. Len(failed[j]) : failed[j][x].why = "busy" } }

C8_BusyFileAlwaysQueued ==
    [][ \A j \in Jobs :
          (pc[j] = "returned" /\ pc'[j] = "done") =>
              \A f \in BusyFiles(j) :
                  \E i \in 1 .. Len(queue') : queue'[i].file = f ]_vars

(* C9: one run of the sweep: an item whose copy succeeds gets exactly one
   'auto_retry' history entry and its staged file is on the destination;
   when the run saves, the queue is exactly the items whose copy failed, in
   order, each with its counter increased by one and its last-attempt time
   set, and every item of the run is either among the copied ones or among
   those, however often it was retried before. *)
RECURSIVE IsSweepSplit(_, _, _)
IsSweepSplit(items, ok, still) ==
    IF items = <<>> THEN ok = <<>> /\ still = <<>>
    ELSE \/ /\ ok # <<>>
            /\ Head(ok) = Head(items)
            /\ IsSweepSplit(Tail(items), Tail(ok), still)
         \/ /\ still # <<>>
            /\ Head(still) = [Head(items) EXCEPT !.retries = @ + 1,
                                                 !.last = TRUE]
            /\ IsSweepSplit(Tail(items), ok, Tail(still))

C9_SweepRun ==
    [][ /\ (spc = "loop" /\ Len(sok') = Len(sok) + 1) =>
              LET it == sok'[Len(sok')]
                  e == <<it.po, "auto_retry", it.file>>
              IN  /\ it = sitems[si]
                  /\ CopiesIn(e, history') = CopiesIn(e, history) + 1
                  /\ dest'[it.file] = localf[it.file]
        /\ (spc = "loop" /\ spc' = "idle") =>
              /\ queue' = sstill
              /\ IsSweepSplit(sitems, sok, sstill) ]_vars

C9_Witness ==
    /\ spc = "loop"
    /\ si > Len(sitems)
    /\ Len(sok) = 1
    /\ Len(sstill) = 1
    /\ sstill[1].retries = MaxRetries

(* C10: after a successful manual retry of an item, the item is no longer
   in the queue. *)
C10_RetriedItemLeavesQueue ==
    [][ (rpc = "update" /\ rpc' = "idle") =>
            \A i \in 1 .. Len(rres.ok) :
                \A q \in 1 .. Len(queue') : queue'[q] # rres.ok[i] ]_vars

(* C10, first half: an item leaves the queue only in a sweep that copied it
   or by clear_pending. *)
C10_LeavesOnlyByCopyOrClear ==
    [][ \A q \in 1 .. Len(queue) :
          (\A r \in 1 .. Len(queue') :
                queue'[r].file # queue[q].file \/ queue'[r].po # queue[q].po)
          => \/ queue' = <<>> /\ nreq' = nreq + 1
             \/ /\ spc = "loop" /\ spc' = "idle"
                /\ \E r \in 1 .. Len(sok) : sok[r] = queue[q] ]_vars

---------------------------------------------------------------------------
(* Claims about the undo ledger, checked under SpecUndo *)

FullyRestored(e, restored) ==
    \A k \in 1 .. Len(e.files) : <<e.op, k, e.files[k].z>> \in restored

BackupsKept(e, bak, bak2) ==
    \A k \in 1 .. Len(e.files) :
        e.files[k].backup \in DOMAIN bak => e.files[k].backup \in DOMAIN bak2

(* C11: a call of undo_selected removes a ledger entry, and deletes its
   backup files, only if every file of that entry was restored onto its
   destination in this call; an entry with a file that was not restored
   stays in the ledger and keeps its backups. *)
C11_UndoRemovesOnlyRestored ==
    [][ nundo' = nundo + 1 =>
          \A i \in 1 .. Len(uhist) :
              \/ FullyRestored(uhist[i], ures'.restored)
              \/ /\ uhist[i] \in SeqRange(uhist')
                 /\ BackupsKept(uhist[i], ubak, ubak') ]_vars

(* The same statement for calls made while the ledger ids are pairwise
   distinct and every recorded destination exists. *)
UniqueIds(h) == \A i, j \in 1 .. Len(h) : h[i].id = h[j].id => i = j

DestsExist(h, z) ==
    \A i \in 1 .. Len(h) : \A k \in 1 .. Len(h[i].files) :
        z[h[i].files[k].z] # Absent

C11_UniqueIdsUndoRemovesOnlyRestored ==
    [][ (nundo' = nundo + 1 /\ UniqueIds(uhist) /\ DestsExist(uhist, uz)) =>
          \A i \in 1 .. Len(uhist) :
              \/ FullyRestored(uhist[i], ures'.restored)
              \/ /\ uhist[i] \in SeqRange(uhist')
                 /\ BackupsKept(uhist[i], ubak, ubak') ]_vars

(* C12: a ledger entry disappears only in an undo_selected call that
   restored every file it references; recording a new entry removes no
   older entry. *)
C12_EntryLeavesOnlyRestored ==
    [][ \A i \in 1 .. Len(uhist) :
          uhist[i] \notin SeqRange(uhist') =>
              /\ nundo' = nundo + 1
              /\ FullyRestored(uhist[i], ures'.restored) ]_vars

---------------------------------------------------------------------------
(* Claims about the normalisation, checked under SpecNorm *)

(* C20: _item_code and _sku_spec are idempotent, give the same result for
   arguments that differ only in letter case, and map '125160H-S001' to
   '125160H' and '125160H-S001', and '' to ''. *)
C20_NormalizationStable ==
    tdone =>
        /\ ItemCode(tcode) = tcode
        /\ SkuSpec(tspec) = tspec
        /\ ItemCode([i \in 1 .. Len(tin) |->
              IF tin[i] \in {"h", "s"} THEN IF tin[i] = "h" THEN "H" ELSE "S"
              ELSE tin[i]]) = tcode
        /\ ItemCode([i \in 1 .. Len(tin) |->
              IF tin[i] \in {"H", "S"} THEN IF tin[i] = "H" THEN "h" ELSE "s"
              ELSE tin[i]]) = tcode
        /\ SkuSpec([i \in 1 .. Len(tin) |->
              IF tin[i] \in {"H", "S"} THEN IF tin[i] = "H" THEN "h" ELSE "s"
              ELSE tin[i]]) = tspec
        /\ tin = Sample1 =>
              /\ tcode = <<"1", "2", "5", "1", "6", "0", "H">>
              /\ tspec = Sample1
        /\ tin = <<>> => tcode = <<>>

C20_Witness ==
    /\ tdone
    /\ tin = <<"1", "h", "-", "s", "1">>
    /\ tcode = <<"1", "H">>
    /\ tspec = <<"1", "H", "-", "S", "1">>

---------------------------------------------------------------------------
(* Claims about the diff engine, checked under SpecDiff *)

Diffed == dpc # "parsed" /\ drecs # <<>>

(* a record matches an order line by PO-line key or by base item code *)
RecMatchesLine(rd, po, ln) ==
    \E k \in 1 .. Len(MatchCols) :
        LET v == Strip(rd[MatchCols[k]])
        IN  \/ /\ po # <<>> /\ ln.line_no # <<>>
               /\ v = KeyOf(po, ln.line_no)
            \/ /\ ItemCode(v) # <<>>
               /\ ItemCode(v) \in {ItemCode(ln.sku), ItemCode(ln.item_code)}

(* C13: the result of smart_diff holds no Cancel action, and an existing
   record that matches no order line, neither by PO-line key nor by base
   item code, is referenced by no action. *)
C13_NoAutoCancel ==
    Diffed =>
        /\ \A i \in 1 .. Len(dactions) : dactions[i].type \in {"modify", "new"}
        /\ \A r \in 1 .. Len(drecs) :
              (\A l \in 1 .. Len(dlines) :
                    ~RecMatchesLine(drecs[r], dpo, dlines[l]))
              => \A i \in 1 .. Len(dactions) : dactions[i].rec # r

C13_Witness ==
    /\ Diffed
    /\ dpo = PoOrder
    /\ drecs[1]["D"] = PoOrder
    /\ drecs[1]["I"] = <<"1">>
    /\ \A l \in 1 .. Len(dlines) : ~RecMatchesLine(drecs[1], dpo, dlines[l])
    /\ dlines[1].qty = 2
    /\ Len(dactions) = Len(dlines)

(* C14: a record that matches an order line by item code and whose PO
   number differs from the order's PO number gets no Modify action. *)
C14_NoCrossPoModify ==
    Diffed =>
        \A i \in 1 .. Len(dactions) :
            (/\ dactions[i].type = "modify"
             /\ MatchOf(drecs[dactions[i].rec], dpo, dlines).key = <<>>)
            => Strip(drecs[dactions[i].rec]["D"]) = dpo

(* C15: an order line that an existing record already matches is never
   emitted as a New action. *)
C15_MatchedLineNotNew ==
    Diffed =>
        \A i \in 1 .. Len(dactions) :
            dactions[i].type = "new" =>
                \A r \in 1 .. Len(drecs) :
                    MatchOf(drecs[r], dpo, dlines).line # dactions[i].line

(* C15, first half: when nothing is changed, a second run of smart_diff
   returns the empty list. *)
C15_SecondRunEmpty ==
    Diffed => SmartDiff(dpo, dlines, drecs, dfound) = <<>>

(* C16: every order line that no existing record matches by PO-line key or
   base item code yields exactly one New action, and every matched line
   yields none. *)
NewsOf(l) ==
    { i \in 1 .. Len(dactions) :
        dactions[i].type = "new" /\ dactions[i].line = l }

C16_NewForEveryUnmatchedLine ==
    Diffed =>
        \A l \in 1 .. Len(dlines) :
            IF \E r \in 1 .. Len(drecs) :
                  RecMatchesLine(drecs[r], dpo, dlines[l])
            THEN NewsOf(l) = {}
            ELSE Cardinality(NewsOf(l)) = 1

(* C16, first half alone: an unmatched line yields exactly one New. *)
C16_UnmatchedLineGetsNew ==
    Diffed =>
        \A l \in 1 .. Len(dlines) :
            (\A r \in 1 .. Len(drecs) :
                  ~RecMatchesLine(drecs[r], dpo, dlines[l]))
            => Cardinality(NewsOf(l)) = 1

(* C17: once the order is committed, every New action without a Schedule
   Reference has an issue record for its line, or belongs to a file bucket
   and so to the commit result. *)
C17_AbsentReferenceSurfaced ==
    dpc = "committed" =>
        \A i \in 1 .. Len(dactions) :
            (dactions[i].type = "new" /\ ~dactions[i].sched) =>
                \/ dactions[i].line \in dissues
                \/ i \in dgrouped

(* The same statement for orders without existing rows. *)
C17_NewOrderAbsentReferenceSurfaced ==
    (dpc = "committed" /\ drecs = <<>>) =>
        \A i \in 1 .. Len(dactions) :
            (dactions[i].type = "new" /\ ~dactions[i].sched) =>
                dactions[i].line \in dissues

(* C22: a record one of whose candidate columns holds the PO-line key of an
   order line is paired with that line, also when a column scanned earlier
   holds the base item code of another order line. *)
C22_KeyBeatsCode ==
    Diffed =>
        \A r \in 1 .. Len(drecs) : \A k \in 1 .. Len(MatchCols) :
            LET v == Strip(drecs[r][MatchCols[k]])
                byPoLine == ByPoLine(dpo, dlines, 1, {})
            IN  HasKey(byPoLine, v)
                => MatchOf(drecs[r], dpo, dlines).line = Lookup(byPoLine, v)

---------------------------------------------------------------------------
(* Claims about the reference search, checked under SpecFind *)

TierOf(row) == RowTier(row, 1, CellCode[qsku], CellSpec[qsku])

HasTier(rws, t) == \E i \in 1 .. Len(rws) : TierOf(rws[i]) = t

(* the level of the row a result refers to *)
ResultTier(result) ==
    TierOf(qfiles[result.file].shs[result.sheet][result.ref - FirstSheetRow + 1])

(* C18: within one sheet, when some row is spec-exact the reference row is
   a spec-exact row, wherever the base-exact and prefix rows stand; when no
   row is spec-exact but one is base-exact, the reference row is base-exact
   and never a prefix row. *)
C18_SheetPriority ==
    qstage # "start" =>
        \A f \in 1 .. Len(qfiles) : \A k \in 1 .. Len(qfiles[f].shs) :
            LET rws == qfiles[f].shs[k]
                result == SheetResult(f, k, rws, CellCode[qsku], CellSpec[qsku])
            IN  /\ HasTier(rws, "spec") =>
                      result.ref # 0 /\ ResultTier(result) = "spec"
                /\ (~HasTier(rws, "spec") /\ HasTier(rws, "exact")) =>
                      result.ref # 0 /\ ResultTier(result) = "exact"
                /\ (Len(qfiles) = 1 /\ Len(qfiles[1].shs) = 1
                        /\ qstage = "done" /\ result.ref # 0) => qbest = result

C18_Witness ==
    /\ qstage = "done"
    /\ qsku = QSpec
    /\ Len(qfiles) = 1
    /\ Len(qfiles[1].shs) = 1
    /\ qfiles[1].shs[1] =
          << [G |-> QPrefix, F |-> <<>>, H |-> QName],
             [G |-> QSpec, F |-> <<>>, H |-> <<>>],
             [G |-> QBase, F |-> <<>>, H |-> QName] >>
    /\ qbest.ref = 3

(* the files whose results compete for the return value: the files with a
   candidate text in their name when one of them holds a match, otherwise
   all files *)
NameHit(f) == \E c \in CandidatesOf[qsku] : IsSubstr(c, qfiles[f].name)

Competes(f) ==
    (\E g \in 1 .. Len(qfiles) :
        NameHit(g) /\ SearchSkuInFile(g, qfiles[g], qsku).ref # 0)
    => NameHit(f)

(* C19: a candidate found only by prefix match is never chosen when a
   competing sheet, of the same file or of another file, holds a spec-exact
   or base-exact row, whatever the counts. *)
C19_ExactBeatsPrefix ==
    (qstage = "done" /\ qbest.ref # 0 /\ ResultTier(qbest) = "prefix") =>
        \A f \in 1 .. Len(qfiles) : \A k \in 1 .. Len(qfiles[f].shs) :
            Competes(f) =>
                /\ ~HasTier(qfiles[f].shs[k], "spec")
                /\ ~HasTier(qfiles[f].shs[k], "exact")

(* C19 within one file only. *)
C19_ExactBeatsPrefixInFile ==
    (qstage = "done" /\ qbest.ref # 0 /\ ResultTier(qbest) = "prefix") =>
        \A k \in 1 .. Len(qfiles[qbest.file].shs) :
            /\ ~HasTier(qfiles[qbest.file].shs[k], "spec")
            /\ ~HasTier(qfiles[qbest.file].shs[k], "exact")

(* what the code does: the chosen candidate has the greatest count of all
   competing sheets, at whatever level it was found *)
C19_ChosenByCount ==
    (qstage = "done" /\ qbest.ref # 0) =>
        \A f \in 1 .. Len(qfiles) : \A k \in 1 .. Len(qfiles[f].shs) :
            Competes(f) =>
                SheetResult(f, k, qfiles[f].shs[k], CellCode[qsku],
                            CellSpec[qsku]).cnt <= qbest.cnt

---------------------------------------------------------------------------
(* Claims about retries and the undo ledger of commits, checked under Spec *)

SameItem(a, b) == a.file = b.file /\ a.po = b.po

(* both batches ended with a busy copy-back of file f, and the sweep copied
   an item of each onto the destination *)
BothRetried(f) ==
    \A j \in Jobs :
        /\ pc[j] = "done"
        /\ jkind[j] = "execute"
        /\ f \in BusyFiles(j)
        /\ CopiesIn(<<j, "auto_retry", f>>, history) >= 1

(* C25: when two batches mutated the same file while its destination was
   unwritable, and the queue has drained by successful copies, the
   destination holds the actions of both batches. *)
C25_BothBatchesReachDest ==
    \A f \in Files :
        (BothRetried(f) /\ queue = <<>> /\ spc = "idle") =>
            \A j \in Jobs : FullTokens(j) \subseteq dest[f]

(* C26: a bucket that failed with an exception is never copied onto its
   destination by the sweep or by a manual retry, and gets no 'auto_retry'
   history entry. *)
C26_ExceptionBucketNeverCopied ==
    [][ /\ (spc = "loop" /\ Len(sok') = Len(sok) + 1) =>
              sitems[si].why # "exc"
        /\ (rpc = "idle" /\ rpc' = "update") =>
              \A i \in 1 .. Len(rres'.ok) : rres'.ok[i].why # "exc" ]_vars

(* C26, first sentence: only a bucket whose mutation was saved becomes a
   queue item. *)
C26_OnlySavedBucketsQueued ==
    \A i \in 1 .. Len(queue) : queue[i].why # "exc"

(* C29: every action on a destination file belongs to a batch that has an
   undo ledger entry for that file. *)
C29_DestContentHasLedgerEntry ==
    \A f \in Files : \A t \in dest[f] :
        \E i \in 1 .. Len(ledger) : ledger[i] = <<t[1], f>>

(* C29 for the copy at commit alone: the step that copies a bucket onto its
   destination records the ledger entry of that bucket. *)
C29_CommitCopyHasLedgerEntry ==
    [][ \A j \in Jobs :
          (pc[j] = "copyback" /\ Len(results'[j]) = Len(results[j]) + 1) =>
              ledger'[Len(ledger')] = <<j, CurFile(j)>> ]_vars

(* C30: when the sweep rewrites the queue, every item that is in the queue
   at that moment stays in it or was copied by this run. *)
C30_AppendedItemNotLost ==
    [][ (spc = "loop" /\ spc' = "idle") =>
          \A q \in 1 .. Len(queue) :
              \/ \E r \in 1 .. Len(queue') : SameItem(queue'[r], queue[q])
              \/ \E r \in 1 .. Len(sok) : SameItem(sok[r], queue[q]) ]_vars

---------------------------------------------------------------------------
(* Claims about backups and the order of restores, checked under SpecUndo *)

(* the content is that of file p: it carries the mark of p and of no other
   file *)
IsContentOf(c, p) == c \cap OrigMarks = {OrigMark(p)}

(* the ledger entries written by batch_process *)
CommitEntries == SelectSeq(uhist, LAMBDA e : e.id[2] = "")

(* C27: the entries of commits on different files have different ids, the
   backup such an entry references holds content of the entry's own
   original path, and no destination ever holds the content of another
   file. *)
C27_BackupsBelongToEntries ==
    /\ \A i, j \in 1 .. Len(CommitEntries) :
          CommitEntries[i].files[1].z # CommitEntries[j].files[1].z =>
              CommitEntries[i].id # CommitEntries[j].id
    /\ \A i \in 1 .. Len(CommitEntries) :
          LET finfo == CommitEntries[i].files[1]
          IN  finfo.backup \in DOMAIN ubak =>
                IsContentOf(ubak[finfo.backup], finfo.z)
    /\ \A p \in UPaths : uz[p] # Absent => IsContentOf(uz[p], p)

(* C27, the ids alone: no two entries of commits share an id. *)
C27_UniqueEntryIds == UniqueIds(CommitEntries)

(* C27 for the contents alone, for the entries of commits and of
   deletions. *)
C27_BackupHoldsOwnFile ==
    \A i \in 1 .. Len(uhist) : \A k \in 1 .. Len(uhist[i].files) :
        LET finfo == uhist[i].files[k]
        IN  finfo.backup \in DOMAIN ubak =>
                IsContentOf(ubak[finfo.backup], finfo.z)

(* C28: when one call undoes two entries of different batches on the same
   file and restores both, the file ends with the content it had before the
   earlier of the two. *)
C28_UndoTwoRestoresEarliest ==
    [][ nundo' = nundo + 1 =>
          \A i, j \in 1 .. Len(uhist) :
              (/\ i < j
               /\ uhist[i].id \in ures'.undone
               /\ uhist[j].id \in ures'.undone
               /\ uhist[i].id # uhist[j].id
               /\ uhist[i].id[2] = "" /\ uhist[j].id[2] = ""
               /\ Len(uhist[i].files) = 1 /\ Len(uhist[j].files) = 1
               /\ uhist[i].files[1].z = uhist[j].files[1].z
               /\ uhist[i].files[1].backup # uhist[j].files[1].backup
               /\ ures'.failed = {}
               /\ Len(SelectById(uhist, ures'.undone)) = 2
               /\ uhist[i].op > 0)
              => uz'[uhist[i].files[1].z] = ubak[uhist[i].files[1].backup] ]_vars

---------------------------------------------------------------------------
(* Claims about scheduled re-entry jobs, checked under SpecSched *)

(* C24: the worker calls batch_process for a scheduled job at most once:
   after a cycle has run a due job, no later cycle runs it again. *)
C24_JobRunsAtMostOnce == \A id \in SchedIds : nruns[id] <= 1

---------------------------------------------------------------------------
(* Claims about the headers of inserted rows, checked under SpecHeader *)

(* the order has a New action with a schedule on the file *)
HasNewOn(order, fkey) ==
    \E i \in 1 .. Len(order.actions) :
        /\ order.actions[i].type = "new"
        /\ order.actions[i].schedule
        /\ order.actions[i].file = fkey

(* C23: when two orders of one batch have New actions on the same file,
   every row inserted into that file carries the PO number, the customer
   and the ship date of the order its line belongs to, not those of the
   order that created the file bucket. *)
C23_RowHasOwnOrderHeader ==
    \A k \in 1 .. Len(grows) :
        (/\ Len(gorders) = 2
         /\ HasNewOn(gorders[1], grows[k].file)
         /\ HasNewOn(gorders[2], grows[k].file))
        => grows[k].fields =
              NewRowFields(gorders[grows[k].line.owner].header,
                           grows[k].line)

---------------------------------------------------------------------------
(* Claims about the PO search, checked under SpecSearch *)

(* C21: batch_search_pos maps every queried PO to exactly the rows search_po
   returns for that PO alone, for every corpus, the empty one included, and
   also for a row that matches more than one of the queried POs. *)
C21_BatchEqualsSingle ==
    searched = {"batch", "single"} /\ po_list # <<>>
    => all_results = Returned(single_results)

====
